---- MODULE Spec2Model ----
(***************************************************************************)
(* Model of the verifact_ai backend: the evidence retriever                *)
(* (agents/evidence_retriever.py), the fact checker                        *)
(* (agents/fact_checker.py) and the verification pipeline                  *)
(* (routers/verification.py, routers/claims.py).                           *)
(*                                                                         *)
(* Conventions.  A reliability score or a confidence is an integer number  *)
(* of hundredths (0.95 is 95).  A raw harm score is an integer number of   *)
(* tenths (85.9 is 859), so that int() has something to truncate.  A URL   *)
(* is a natural number, 0 standing for the empty string.  A text is        *)
(* represented by its length.                                              *)
(***************************************************************************)
EXTENDS Integers, Sequences, FiniteSets, TLC

VARIABLES
    \* ---- evidence retrieval (one call of retrieve_evidence)
    erEntities,    \* the entities argument: "none", "some" or "bad"
    erOutcome,     \* how each adapter's request ended: [google, news]
    erGoogle,      \* what _search_google_factcheck builds from the answer
    erNews,        \* what _search_news_api builds from the answer
    erPc,          \* "idle" (not in this specification), "start", "done",
                   \* "failed", then "saved" or "KeyError"
    erUnique,      \* unique_sources, what _deduplicate_sources returned
    erResult,      \* the record retrieve_evidence returned
    \* ---- fact checking (one call of fact_check)
    fcEvidence,    \* the evidence_sources argument
    fcLlm,         \* what the generation call produced
    fcPc,          \* "idle", "start", "done"
    fcVerdict,     \* the verdict fact_check returned
    \* ---- the verification pipeline
    claims,        \* claim store: claim id -> record
    verdicts,      \* verdict store: sequence of records, the index is the id
    evidence,      \* evidence store: sequence of snapshots
    alerts,        \* alert store: sequence of alert records
    reqs,          \* verify requests in flight: slot -> record (pc and locals)
    started,       \* number of verify requests received so far
    \* ---- ingestion (one request to ingest_text)
    dcRaw,         \* what the generation call of detect_claim produced
    dcResult,      \* the record detect_claim returned
    igPc,          \* "idle", "start", "detected", "responded"
    igResponse,    \* the response of ingest_text
    \* ---- the similarity index (services/embedding_service.py)
    fileIndex,     \* the index file: [exists, data], data the vectors
    fileMeta,      \* the metadata file: [exists, data]
    svc,           \* the EmbeddingService of each request: slot -> record
    ixInserted,    \* history: the vector given for claim i, in order
    ixCompleted,   \* history: claims whose add_claim_to_index returned
    ixCrashes,     \* number of crashes so far
    ixSearch,      \* the search being answered, or None
    \* ---- clustering (services/clustering_service.py)
    ckClaims,      \* claim store as clustering reads it: id -> record
    ckClusters,    \* cluster store: set of records, one per cluster_id
    ckRuns,        \* history: the runs of cluster_recent_claims, in order
    ckNow,         \* the clock, in seconds
    ckTicks,       \* number of times the clock advanced
    \* ---- the reliability heuristic (one call of _estimate_domain_reliability)
    drDomain,      \* the domain argument: a sequence of labels
    drScore,       \* [score |-> the score returned, in hundredths], or None
    \* ---- the pipeline under store failures, process stops and reviews
    rvFaults,      \* number of store writes of verify that failed so far
    rvStops,       \* number of times the process stopped
    rvReviews,     \* number of review requests received so far
    rvStopped,     \* history: the requests a process stop cut short
    rvPreReview,   \* history: verdict id -> its label before its first review
    rvResponse     \* the response of the last request that ended, or None

erVars == <<erEntities, erOutcome, erGoogle, erNews, erPc, erUnique, erResult>>
fcVars == <<fcEvidence, fcLlm, fcPc, fcVerdict>>
plVars == <<claims, verdicts, evidence, alerts, reqs, started>>
igVars == <<dcRaw, dcResult, igPc, igResponse>>
ixVars == <<fileIndex, fileMeta, svc, ixInserted, ixCompleted, ixCrashes, ixSearch>>
ckVars == <<ckClaims, ckClusters, ckRuns, ckNow, ckTicks>>
drVars == <<drDomain, drScore>>
rvVars == <<rvFaults, rvStops, rvReviews, rvStopped, rvPreReview, rvResponse>>
vars == <<erEntities, erOutcome, erGoogle, erNews, erPc, erUnique, erResult, fcEvidence, fcLlm, fcPc, fcVerdict,
          claims, verdicts, evidence, alerts, reqs, started,
          dcRaw, dcResult, igPc, igResponse,
          fileIndex, fileMeta, svc, ixInserted, ixCompleted, ixCrashes, ixSearch,
          ckClaims, ckClusters, ckRuns, ckNow, ckTicks,
          drDomain, drScore,
          rvFaults, rvStops, rvReviews, rvStopped, rvPreReview, rvResponse>>

----------------------------------------------------------------------------
(* Helpers                                                                 *)

Min(a, b) == IF a < b THEN a ELSE b
Max(a, b) == IF a > b THEN a ELSE b

\* Python's s[:n]
Take(s, n) == SubSeq(s, 1, Min(n, Len(s)))

Range(s) == {s[i] : i \in 1..Len(s)}

\* The empty string as a URL
EmptyUrl == 0

\* The placeholder of a variable that a specification does not use
None == [none |-> TRUE]

----------------------------------------------------------------------------
(* Evidence retrieval: agents/evidence_retriever.py                        *)

\* self.max_sources
max_sources == 10

\* reliability_score given to every fact-check registry hit
FactCheckReliability == 90

\* values of _estimate_domain_reliability used for the news articles
NewsReliabilities == {50, 95}

\* One evidence source as the adapters build it.  title stands for the
\* fields that neither deduplication nor ranking reads.
EvidenceSource(u, t, r) == [url |-> u, title |-> t, reliability_score |-> r]

\* _deduplicate_sources, the loop from entry i on, seen being seen_urls
RECURSIVE DedupFrom(_, _, _)
DedupFrom(sources, i, seen) ==
    IF i > Len(sources) THEN <<>>
    ELSE LET url == sources[i].url IN
         IF url # EmptyUrl /\ url \notin seen
         THEN <<sources[i]>> \o DedupFrom(sources, i + 1, seen \cup {url})
         ELSE DedupFrom(sources, i + 1, seen)

\* a plausible slip: the last occurrence of a URL wins
RECURSIVE DedupLastWins(_)
DedupLastWins(sources) ==
    IF sources = <<>> THEN <<>>
    ELSE LET n == Len(sources)
             rest == DedupLastWins(SubSeq(sources, 1, n - 1))
             url == sources[n].url
         IN IF url = EmptyUrl THEN rest
            ELSE SelectSeq(rest, LAMBDA s : s.url # url) \o <<sources[n]>>

_deduplicate_sources(sources) == DedupFrom(sources, 1, {})

\* Where a stable descending sort puts x in the sorted sequence s: after
\* every entry whose key is at least x's.
RECURSIVE InsertDesc(_, _)
InsertDesc(s, x) ==
    IF s = <<>> THEN <<x>>
    ELSE IF Head(s).reliability_score >= x.reliability_score
         THEN <<Head(s)>> \o InsertDesc(Tail(s), x)
         ELSE <<x>> \o s

\* sorted(sources, key=reliability_score, reverse=True): stable
RECURSIVE SortedDesc(_)
SortedDesc(s) ==
    IF s = <<>> THEN <<>>
    ELSE InsertDesc(SortedDesc(SubSeq(s, 1, Len(s) - 1)), s[Len(s)])

\* a plausible slip: ascending order (reverse=True forgotten)
RECURSIVE RankAscending(_)
RankAscending(s) ==
    IF s = <<>> THEN <<>>
    ELSE LET r == SortedDesc(s) IN <<r[Len(r)]>> \o RankAscending(SubSeq(r, 1, Len(r) - 1))

_rank_sources(sources) == SortedDesc(sources)

\* retrieve_evidence, the try block, given what the three adapters returned
\* (_search_web_general always returns [])
retrieve_evidence(google, news) ==
    LET all_sources == google \o news \o <<>>
        unique_sources == _deduplicate_sources(all_sources)
        ranked_sources == _rank_sources(unique_sources)
        top_sources == Take(ranked_sources, max_sources)
    IN [sources |-> top_sources,
        total_sources_found |-> Len(all_sources),
        retrieval_method |-> "multi-source"]

\* how the request of an adapter can end: an answer, no API key, an HTTP
\* error or a timeout (both raised inside the adapter's try), or an
\* exception that leaves the adapter's task (nothing in the adapters lets
\* one out; gather is what receives it when one is, say, cancelled)
AdapterOutcomes == {"ok", "no_key", "http_error", "timeout", "escaped"}

\* one entry of results: what gather(..., return_exceptions=True) holds for
\* an adapter whose request ended with outcome and whose answer, if any,
\* makes the list sources
TaskResult(outcome, sources) ==
    CASE outcome = "ok" -> [is_list |-> TRUE, value |-> sources]
      [] outcome \in {"no_key", "http_error", "timeout"} ->
            [is_list |-> TRUE, value |-> <<>>]
      [] outcome = "escaped" -> [is_list |-> FALSE, value |-> "Exception"]

\* a plausible slip: the loop over results stops at the first exception
RECURSIVE AllSourcesUntilFailure(_)
AllSourcesUntilFailure(results) ==
    IF results = <<>> \/ ~Head(results).is_list THEN <<>>
    ELSE Head(results).value \o AllSourcesUntilFailure(Tail(results))

\* all_sources: the results that are lists, concatenated
RECURSIVE AllSources(_)
AllSources(results) ==
    IF results = <<>> THEN <<>>
    ELSE (IF Head(results).is_list THEN Head(results).value ELSE <<>>)
             \o AllSources(Tail(results))

\* results of the three tasks; _search_web_general returns []
Gathered(outcome, google, news) ==
    <<TaskResult(outcome.google, google), TaskResult(outcome.news, news),
      TaskResult("ok", <<>>)>>

\* _generate_search_queries: the number of queries, or the exception that
\* e.get("text") / " ".join raise on an entity that is no dict or whose
\* text is no string
_generate_search_queries(entities) ==
    CASE entities = "none" -> [raised |-> FALSE, value |-> 2]
      [] entities = "some" -> [raised |-> FALSE, value |-> 3]
      [] entities = "bad" -> [raised |-> TRUE, value |-> "TypeError"]

\* retrieve_evidence as a whole: the try block and the except branch
retrieve(entities, outcome, google, news) ==
    LET search_queries == _generate_search_queries(entities) IN
    IF search_queries.raised
    THEN [sources |-> <<>>, total_sources_found |-> 0, search_queries |-> 0,
          error |-> search_queries.value]
    ELSE LET all_sources == AllSources(Gathered(outcome, google, news))
             r == retrieve_evidence(all_sources, <<>>)
         IN [sources |-> r.sources,
             total_sources_found |-> r.total_sources_found,
             search_queries |-> search_queries.value,
             retrieval_method |-> r.retrieval_method]

\* evidence_data of verify_claim: evidence_result[key] for the four keys
EvidenceKeys == {"sources", "total_sources_found", "search_queries", "retrieval_method"}

(* The inputs of the retrieval specification.                              *)

\* most entries the fact-check registry adapter returns
MaxGoogle == 2
\* most entries the news adapter returns in a long answer
MaxNews == 9
\* longest answer whose entries are drawn freely
MaxShort == 3
\* number of distinct non-empty URLs in a freely drawn answer
NumUrls == 2

\* the registry adapter's answer: g hits, distinct URLs, reliability 0.9
GoogleAnswer(g) == [i \in 1..g |-> EvidenceSource(i, i, FactCheckReliability)]

\* a long news answer after g registry hits: n articles with fresh URLs,
\* except that article p (if p > 0) carries the URL d: the empty string or
\* the URL of the very first entry; articles a..b come from a domain of
\* the high-reliability list (0.95), the others from an unknown one (0.5)
LongNewsAnswer(g, n, a, b, p, d) ==
    [i \in 1..n |-> EvidenceSource(IF i = p THEN d ELSE g + i, g + i,
                                   IF a <= i /\ i <= b THEN 95 ELSE 50)]

LongNewsAnswers(g) ==
    UNION {{LongNewsAnswer(g, w[1], w[2], w[3], p, d) :
                p \in 0..w[1], d \in {EmptyUrl, 1}} :
           w \in {x \in (0..MaxNews) \X (1..MaxNews) \X (0..MaxNews) :
                     x[2] <= x[1] /\ x[2] - 1 <= x[3] /\ x[3] <= x[1]}}

\* a short news answer: every URL (the empty one included) and every
\* reliability drawn freely
ShortNewsAnswers ==
    UNION {{[i \in 1..n |-> EvidenceSource(f[i][1], i, f[i][2])] :
                f \in [1..n -> (0..NumUrls) \X NewsReliabilities]} :
           n \in 0..MaxShort}

\* the calls in which every adapter answers
AllOk == [google |-> "ok", news |-> "ok"]

ErInit ==
    /\ \/ \E g \in 0..MaxGoogle :
             /\ erGoogle = GoogleAnswer(g)
             /\ erNews \in LongNewsAnswers(g)
             /\ erOutcome = AllOk /\ erEntities = "none"
       \/ /\ erGoogle = <<>>
          /\ erNews \in ShortNewsAnswers
          /\ erOutcome = AllOk /\ erEntities = "none"
       \/ \E g \in 0..MaxGoogle :
             /\ erGoogle = GoogleAnswer(g)
             /\ erNews \in {s \in ShortNewsAnswers : Len(s) <= 2}
             /\ erOutcome \in [google : AdapterOutcomes, news : AdapterOutcomes]
             /\ erEntities \in {"none", "some", "bad"}
    /\ erPc = "start"
    /\ erUnique = None
    /\ erResult = None

ErIdle ==
    /\ erGoogle = <<>> /\ erNews = <<>> /\ erPc = "idle"
    /\ erOutcome = AllOk /\ erEntities = "none"
    /\ erUnique = None /\ erResult = None

\* one call of retrieve_evidence
RetrieveEvidence ==
    /\ erPc = "start"
    /\ erResult' = retrieve(erEntities, erOutcome, erGoogle, erNews)
    /\ IF _generate_search_queries(erEntities).raised
       THEN erUnique' = None /\ erPc' = "failed"
       ELSE /\ erUnique' = _deduplicate_sources(
                               AllSources(Gathered(erOutcome, erGoogle, erNews)))
            /\ erPc' = "done"
    /\ UNCHANGED <<erEntities, erOutcome, erGoogle, erNews>>

\* verify_claim building evidence_data from the record returned: a key
\* that the record lacks raises KeyError
BuildEvidenceData ==
    /\ erPc \in {"done", "failed"}
    /\ erPc' = IF EvidenceKeys \subseteq DOMAIN erResult THEN "saved" ELSE "KeyError"
    /\ UNCHANGED <<erEntities, erOutcome, erGoogle, erNews, erUnique, erResult>>

----------------------------------------------------------------------------
(* Fact checking: agents/fact_checker.py                                   *)

\* what result.get(key, default) finds when the key is absent
Missing == "<missing>"

valid_verdicts == {"True", "False", "Misleading", "Partially True", "Unverified"}
valid_actions == {"label", "debunk", "escalate", "monitor", "approve"}

\* A raw number of the generation output: t is "missing" (no such key),
\* "num" (a number, or a string Python converts), "nan" (NaN) or "bad"
\* (None, a list, a string that is no number); v is the number.
Raw(t, v) == [t |-> t, v |-> v]

\* int(x) for a number given in tenths: truncation toward zero
IntOfTenths(x) == IF x >= 0 THEN x \div 10 ELSE -((-x) \div 10)

\* max(0.0, min(1.0, float(result.get("confidence", 0.0)))), in hundredths.
\* min(1.0, nan) is 1.0: the comparison nan < 1.0 is false.
ClampConfidence(raw) ==
    CASE raw.t = "missing" -> 0
      [] raw.t = "nan" -> 100
      [] OTHER -> Max(0, Min(100, raw.v))

\* a plausible slip: the upper clamp only
ClampHarmNoFloor(raw) ==
    IF raw.t = "missing" THEN 0 ELSE Min(100, IntOfTenths(raw.v))

\* max(0, min(100, int(result.get("harm_score", 0))))
ClampHarm(raw) ==
    IF raw.t = "missing" THEN 0 ELSE Max(0, Min(100, IntOfTenths(raw.v)))

\* a text or a list of the output, by its length: s[:n] of it
Cut(raw, n) == IF raw.t = "missing" THEN 0 ELSE Min(raw.len, n)

\* The first exception the validation of `result` raises, in the order of
\* the statements of _validate_verdict and _validate_sources; "none" when
\* it raises nothing.  float() and int() raise on what is no number, int()
\* on NaN; a slice raises on None; .get raises on what is no dict.
ValidationError(result) ==
    CASE result.confidence.t = "bad" -> "ValueError"
      [] result.harm_score.t \in {"bad", "nan"} -> "ValueError"
      [] result.sources.t = "bad" -> "TypeError"
      [] /\ result.sources.t = "list"
         /\ \E i \in 1..Min(10, Len(result.sources.items)) :
               result.sources.items[i].t = "nondict" -> "AttributeError"
      [] result.reasoning.t = "bad" -> "TypeError"
      [] result.explain_like_12.t = "bad" -> "TypeError"
      [] result.tags.t = "bad" -> "TypeError"
      [] OTHER -> "none"

\* the first entry of evidence_sources with the URL url (the next(...) of
\* _validate_sources)
MatchingEvidence(evidence_sources, url) ==
    evidence_sources[CHOOSE i \in 1..Len(evidence_sources) :
        /\ evidence_sources[i].url = url
        /\ \A j \in 1..(i - 1) : evidence_sources[j].url # url]

\* the entry _validate_sources appends for an evidence source
SourceReference(e) == [link |-> e.url, title |-> e.title, reliability |-> e.reliability_score]

\* the loop of _validate_sources over claimed_sources[:10]
RECURSIVE ValidatedFrom(_, _, _)
ValidatedFrom(claimed, i, evidence_sources) ==
    IF i > Len(claimed) THEN <<>>
    ELSE LET url == claimed[i].link
             rest == ValidatedFrom(claimed, i + 1, evidence_sources)
         IN IF url \in {evidence_sources[j].url : j \in 1..Len(evidence_sources)}
            THEN <<SourceReference(MatchingEvidence(evidence_sources, url))>> \o rest
            ELSE rest

\* a plausible slip: every cited source is kept, matching or not
ValidateSourcesNoFilter(claimed_sources, evidence_sources) ==
    [i \in 1..Min(10, Len(claimed_sources)) |->
        [link |-> claimed_sources[i].link, title |-> 0, reliability |-> 50]]

\* a plausible slip: the fallback cites the last 3 evidence sources
ValidateSourcesLastThree(claimed_sources, evidence_sources) ==
    LET validated == ValidatedFrom(Take(claimed_sources, 10), 1, evidence_sources)
        n == Len(evidence_sources)
    IN IF validated = <<>> /\ evidence_sources # <<>>
       THEN [i \in 1..Min(3, n) |-> SourceReference(evidence_sources[n - Min(3, n) + i])]
       ELSE Take(validated, 10)

_validate_sources(claimed_sources, evidence_sources) ==
    LET validated == ValidatedFrom(Take(claimed_sources, 10), 1, evidence_sources)
    IN IF validated = <<>> /\ evidence_sources # <<>>
       THEN [i \in 1..Min(3, Len(evidence_sources)) |-> SourceReference(evidence_sources[i])]
       ELSE Take(validated, 10)

\* a text of a verdict: its length and the error it reports ("none": none)
Text(n, e) == [len |-> n, error |-> e]

\* _validate_verdict, for a result whose validation raises nothing
_validate_verdict(result, evidence_sources) ==
    [verdict |-> IF result.verdict \in valid_verdicts THEN result.verdict
                 ELSE "Unverified",
     confidence |-> ClampConfidence(result.confidence),
     reasoning |-> Text(Cut(result.reasoning, 3000), "none"),
     sources |-> _validate_sources(
                     IF result.sources.t = "missing" THEN <<>> ELSE result.sources.items,
                     evidence_sources),
     explain_like_12 |-> Text(Cut(result.explain_like_12, 1000), "none"),
     harm_score |-> ClampHarm(result.harm_score),
     recommended_action |-> IF result.recommended_action \in valid_actions
                            THEN result.recommended_action ELSE "monitor",
     tags |-> Cut(result.tags, 10)]

\* length of str(e) for the exceptions of the model
ErrorLen(error) == IF error = "malformed" THEN 40 ELSE 25

\* _create_error_verdict: the fixed texts are 37 + len(error) and 60 long
_create_error_verdict(error) ==
    [verdict |-> "Unverified",
     confidence |-> 0,
     reasoning |-> Text(37 + ErrorLen(error), error),
     sources |-> <<>>,
     explain_like_12 |-> Text(60, "none"),
     harm_score |-> 0,
     recommended_action |-> "monitor",
     tags |-> 2]

\* a plausible slip: no try/except around the validation
FactCheckUncaught(llm, evidence_sources) ==
    IF llm.kind # "json" THEN [raised |-> FALSE, value |-> _create_error_verdict(llm.kind)]
    ELSE IF ValidationError(llm.result) # "none"
         THEN [raised |-> TRUE, value |-> _create_error_verdict(ValidationError(llm.result))]
         ELSE [raised |-> FALSE, value |-> _validate_verdict(llm.result, evidence_sources)]

\* fact_check: llm is what the generation call and json.loads produced,
\* kind "api_error" (the call raised), "malformed" (json.loads raised) or
\* "json" (a parsed object, llm.result).  raised tells whether the call
\* raised to its caller, value is what it returned.
fact_check(llm, evidence_sources) ==
    IF llm.kind # "json" THEN [raised |-> FALSE, value |-> _create_error_verdict(llm.kind)]
    ELSE IF ValidationError(llm.result) # "none"
         THEN [raised |-> FALSE, value |-> _create_error_verdict(ValidationError(llm.result))]
         ELSE [raised |-> FALSE, value |-> _validate_verdict(llm.result, evidence_sources)]

(* The inputs of the fact-checking specification.                          *)

\* most evidence sources passed to fact_check
MaxEvidence == 4
\* most sources the generation output cites
MaxCited == 2

\* a text or list of the generation output: t is "missing", "str" or "bad"
RawText(t, n) == [t |-> t, len |-> n]

\* a cited source: a dict with its link (0: no link key), or no dict at all
Cited(t, l) == [t |-> t, link |-> l]

\* reliability scores of the evidence passed to fact_check
FcReliabilities == {50, 90, 95}

\* evidence lists: distinct URLs (entry i carries the URL i) and any
\* reliability, in any order
FcEvidences ==
    UNION {{[i \in 1..n |-> EvidenceSource(i, i, rel[i])] : rel \in [1..n -> FcReliabilities]} :
           n \in 0..MaxEvidence}

\* links 1 and 2 may match an evidence URL; 99 is fabricated; 0 is no link
CitedItems == {Cited("dict", l) : l \in {0, 1, 2, 99}} \cup {Cited("nondict", 0)}

RawSources ==
    {[t |-> "missing", items |-> <<>>], [t |-> "bad", items |-> <<>>]}
    \cup UNION {{[t |-> "list", items |-> f] : f \in [1..n -> CitedItems]} : n \in 0..MaxCited}

\* the other fields of an output that is as the prompt asks
GoodResult(src) ==
    [verdict |-> "False", confidence |-> Raw("num", 80), harm_score |-> Raw("num", 750),
     recommended_action |-> "debunk", sources |-> src, reasoning |-> RawText("str", 120),
     explain_like_12 |-> RawText("str", 80), tags |-> RawText("str", 3)]

\* an output with no field but the sources
BareResult(src) ==
    [verdict |-> Missing, confidence |-> Raw("missing", 0), harm_score |-> Raw("missing", 0),
     recommended_action |-> Missing, sources |-> src, reasoning |-> RawText("missing", 0),
     explain_like_12 |-> RawText("missing", 0), tags |-> RawText("missing", 0)]

\* outputs whose fields are out of range, missing or wrongly typed
RawResults ==
    [verdict : {"False", "Partially True", "Maybe", Missing},
     confidence : {Raw("missing", 0), Raw("num", -50), Raw("num", 70), Raw("num", 150),
                   Raw("nan", 0), Raw("bad", 0)},
     harm_score : {Raw("missing", 0), Raw("num", -25), Raw("num", 859), Raw("num", 1505),
                   Raw("nan", 0), Raw("bad", 0)},
     recommended_action : {"debunk", "delete", Missing},
     sources : {[t |-> "missing", items |-> <<>>],
                [t |-> "list", items |-> <<Cited("dict", 1)>>],
                [t |-> "list", items |-> <<Cited("dict", 99)>>]},
     reasoning : {RawText("missing", 0), RawText("str", 120), RawText("str", 3500),
                  RawText("bad", 0)},
     explain_like_12 : {RawText("missing", 0), RawText("str", 1200), RawText("bad", 0)},
     tags : {RawText("missing", 0), RawText("str", 12)}]

Json(result) == [kind |-> "json", result |-> result]
Failure(kind) == [kind |-> kind, result |-> BareResult([t |-> "missing", items |-> <<>>])]

FcInit ==
    /\ \/ /\ fcEvidence \in FcEvidences
          /\ \/ fcLlm \in {Failure("api_error"), Failure("malformed")}
             \/ \E src \in RawSources : fcLlm \in {Json(GoodResult(src)), Json(BareResult(src))}
       \/ /\ fcEvidence \in {<<>>, <<EvidenceSource(1, 1, 95), EvidenceSource(2, 2, 50)>>}
          /\ \E result \in RawResults : fcLlm = Json(result)
    /\ fcPc = "start"
    /\ fcVerdict = None

\* one call of fact_check
FactCheck ==
    /\ fcPc = "start"
    /\ fcVerdict' = fact_check(fcLlm, fcEvidence)
    /\ fcPc' = "done"
    /\ UNCHANGED <<fcEvidence, fcLlm>>

FcIdle ==
    /\ fcEvidence = <<>> /\ fcLlm = Failure("api_error") /\ fcPc = "idle"
    /\ fcVerdict = None

(* The verification pipeline: routers/verification.py, routers/claims.py   *)

\* most claims ingested
MaxClaims == 1
\* most verify requests received
MaxVerifies == 2

\* the slots of the verify requests that may be in flight together
Slots == {"r1", "r2"}

\* VerdictInDB(...): the pydantic (v1) validation of VerdictBase
VerdictInDBValid(vr) ==
    /\ vr.verdict \in valid_verdicts
    /\ vr.confidence >= 0 /\ vr.confidence <= 100
    /\ vr.reasoning.len >= 50 /\ vr.reasoning.len <= 3000
    /\ Len(vr.sources) >= 1 /\ Len(vr.sources) <= 10
    /\ vr.explain_like_12.len >= 30 /\ vr.explain_like_12.len <= 1000
    /\ vr.harm_score >= 0 /\ vr.harm_score <= 100
    /\ vr.recommended_action \in valid_actions

\* the document verify inserts into the verdict store
VerdictInDB(claim_id, vr) ==
    [claim_id |-> claim_id, verdict |-> vr.verdict, confidence |-> vr.confidence,
     sources |-> vr.sources, harm_score |-> vr.harm_score,
     recommended_action |-> vr.recommended_action, human_reviewed |-> FALSE,
     reviewer_notes |-> 0, is_published |-> FALSE]

\* a plausible slip: critical from 70 on, high never
SeverityAlwaysCritical(harm_score) == "critical"

\* _create_alert: "high" if harm_score < 90 else "critical"
Severity(harm_score) == IF harm_score < 90 THEN "high" ELSE "critical"

\* the document _create_alert inserts into the alert store
AlertData(claim_id, vr) ==
    [alert_type |-> "high_impact", severity |-> Severity(vr.harm_score),
     related_claim_ids |-> <<claim_id>>, is_active |-> TRUE]

\* what the adapters answer in the pipeline: no provider configured (every
\* adapter returns []), or one registry hit and two articles
PlAnswers ==
    {[google |-> <<>>, news |-> <<>>],
     [google |-> GoogleAnswer(1),
      news |-> <<EvidenceSource(2, 2, 50), EvidenceSource(3, 3, 95)>>]}

\* a well-formed output that cites evidence URL 1, with a raw harm score
PlResult(harm) ==
    [GoodResult([t |-> "list", items |-> <<Cited("dict", 1)>>]) EXCEPT
        !.harm_score = Raw("num", harm)]

\* what the generation call produces in the pipeline: a failure, or a
\* well-formed output with a harm score of 69.9, 70 or 90
PlOutputs ==
    {Failure("api_error")} \cup {Json(PlResult(h)) : h \in {699, 700, 900}}

\* the locals of a request slot that holds no request
NoRequest ==
    [pc |-> "idle", claim_id |-> 0, force_reverify |-> FALSE, claim_verdict_id |-> 0,
     sources |-> <<>>, verdict_result |-> _create_error_verdict("none"),
     verdict_id |-> 0, status_code |-> 0]

PlInit ==
    /\ claims = <<>> /\ verdicts = <<>> /\ evidence = <<>> /\ alerts = <<>>
    /\ reqs = [r \in Slots |-> NoRequest]
    /\ started = 0

PlIdle == PlInit

\* ingest_text, a text in which a claim is detected: the claim is stored
\* with status pending and no verdict_id (0)
Ingest ==
    /\ Len(claims) < MaxClaims
    /\ claims' = Append(claims, [status |-> "pending", verdict_id |-> 0])
    /\ UNCHANGED <<verdicts, evidence, alerts, reqs, started>>

\* the request ends: the response leaves with its status code
Respond(r, code) ==
    [reqs EXCEPT ![r].pc = "done", ![r].status_code = code,
                 ![r].verdict_result = NoRequest.verdict_result]

\* POST /verify/{claim_id} arrives; it takes slot r2 only while r1 is busy
StartVerify(r, c, force) ==
    /\ reqs[r].pc \in {"idle", "done"}
    /\ r = "r2" => reqs["r1"].pc \notin {"idle", "done"}
    /\ started < MaxVerifies
    /\ started' = started + 1
    /\ reqs' = [reqs EXCEPT ![r] = [NoRequest EXCEPT !.pc = "find", !.claim_id = c,
                                                      !.force_reverify = force]]
    /\ UNCHANGED <<claims, verdicts, evidence, alerts>>

\* an id that is not the 24 hexadecimal digits of an ObjectId:
\* ObjectId(id) raises bson.errors.InvalidId
InvalidId == -1

\* a plausible slip: the stored verdict is never looked up
NeverStored(verdict_id, force_reverify) == FALSE

\* claim.get("verdict_id") and not force_reverify
AlreadyVerified(verdict_id, force_reverify) == verdict_id # 0 /\ ~force_reverify

\* claim = await db.claims.find_one({"_id": ObjectId(claim_id)}): the
\* conversion raises on an invalid id; 404 when there is no such claim; then
\* the test of claim.get("verdict_id") and not force_reverify
FindClaim(r) ==
    /\ reqs[r].pc = "find"
    /\ LET c == reqs[r].claim_id IN
       IF c = InvalidId THEN reqs' = [reqs EXCEPT ![r].pc = "handler"]
       ELSE IF c \notin 1..Len(claims) THEN reqs' = Respond(r, 404)
       ELSE reqs' = [reqs EXCEPT
                ![r].claim_verdict_id = claims[c].verdict_id,
                ![r].pc = IF AlreadyVerified(claims[c].verdict_id, reqs[r].force_reverify)
                          THEN "find_verdict" ELSE "set_processing"]
    /\ UNCHANGED <<claims, verdicts, evidence, alerts, started>>

\* existing_verdict = await db.verdicts.find_one(...): returned when found
FindVerdict(r) ==
    /\ reqs[r].pc = "find_verdict"
    /\ IF reqs[r].claim_verdict_id \in 1..Len(verdicts)
       THEN reqs' = [Respond(r, 200) EXCEPT ![r].verdict_id = reqs[r].claim_verdict_id]
       ELSE reqs' = [reqs EXCEPT ![r].pc = "set_processing"]
    /\ UNCHANGED <<claims, verdicts, evidence, alerts, started>>

\* await db.claims.update_one(... status processing)
SetProcessing(r) ==
    /\ reqs[r].pc = "set_processing"
    /\ claims' = [claims EXCEPT ![reqs[r].claim_id].status = "processing"]
    /\ reqs' = [reqs EXCEPT ![r].pc = "retrieve"]
    /\ UNCHANGED <<verdicts, evidence, alerts, started>>

\* evidence_result = await evidence_retriever.retrieve_evidence(...)
Retrieve(r) ==
    /\ reqs[r].pc = "retrieve"
    /\ \E answer \in PlAnswers :
          reqs' = [reqs EXCEPT
              ![r].sources = retrieve_evidence(answer.google, answer.news).sources,
              ![r].pc = "save_evidence"]
    /\ UNCHANGED <<claims, verdicts, evidence, alerts, started>>

\* await db.evidence.insert_one(evidence_data)
SaveEvidence(r) ==
    /\ reqs[r].pc = "save_evidence"
    /\ evidence' = Append(evidence, [claim_id |-> reqs[r].claim_id,
                                     sources |-> reqs[r].sources])
    /\ reqs' = [reqs EXCEPT ![r].pc = "fact_check"]
    /\ UNCHANGED <<claims, verdicts, alerts, started>>

\* verdict_result = await fact_checker.fact_check(...)
FactCheckStep(r) ==
    /\ reqs[r].pc = "fact_check"
    /\ \E llm \in PlOutputs :
          LET outcome == fact_check(llm, reqs[r].sources) IN
          reqs' = [reqs EXCEPT
              ![r].verdict_result = outcome.value,
              ![r].pc = IF outcome.raised THEN "handler" ELSE "insert_verdict"]
    /\ UNCHANGED <<claims, verdicts, evidence, alerts, started>>

\* a plausible slip: the id of the local VerdictInDB object, which the
\* insert leaves out (exclude={"id"}), in place of inserted_id
LocalModelId == Len(verdicts) + MaxVerifies + 1

\* verdict_insert.inserted_id: the id the store gives the new record
InsertedId == Len(verdicts) + 1

\* verdict_data = VerdictInDB(...), which raises when the validation fails,
\* then await db.verdicts.insert_one(...)
InsertVerdict(r) ==
    /\ reqs[r].pc = "insert_verdict"
    /\ IF VerdictInDBValid(reqs[r].verdict_result)
       THEN /\ verdicts' = Append(verdicts,
                               VerdictInDB(reqs[r].claim_id, reqs[r].verdict_result))
            /\ reqs' = [reqs EXCEPT ![r].verdict_id = InsertedId, ![r].pc = "update_claim"]
       ELSE /\ reqs' = [reqs EXCEPT ![r].pc = "handler"]
            /\ UNCHANGED verdicts
    /\ UNCHANGED <<claims, evidence, alerts, started>>

\* await db.claims.update_one(... verdict_id, status verified); with a
\* harm_score below 70 the response follows at once
UpdateClaim(r) ==
    /\ reqs[r].pc = "update_claim"
    /\ claims' = [claims EXCEPT ![reqs[r].claim_id] =
                      [status |-> "verified", verdict_id |-> reqs[r].verdict_id]]
    /\ reqs' = IF reqs[r].verdict_result.harm_score >= 70
               THEN [reqs EXCEPT ![r].pc = "create_alert"]
               ELSE Respond(r, 200)
    /\ UNCHANGED <<verdicts, evidence, alerts, started>>

\* await _create_alert(...), then the response
CreateAlert(r) ==
    /\ reqs[r].pc = "create_alert"
    /\ alerts' = Append(alerts, AlertData(reqs[r].claim_id, reqs[r].verdict_result))
    /\ reqs' = Respond(r, 200)
    /\ UNCHANGED <<claims, verdicts, evidence, started>>

\* except Exception: await db.claims.update_one(... status error), 500;
\* on an invalid id ObjectId(claim_id) raises again, out of the handler,
\* and the framework answers 500
HandleError(r) ==
    /\ reqs[r].pc = "handler"
    /\ claims' = IF reqs[r].claim_id = InvalidId THEN claims
                 ELSE [claims EXCEPT ![reqs[r].claim_id].status = "error"]
    /\ reqs' = Respond(r, 500)
    /\ UNCHANGED <<verdicts, evidence, alerts, started>>

(* The pipeline under store failures, process stops and human review:      *)
(* routers/verification.py                                                 *)

\* most store writes of verify requests that fail
MaxFaults == 1
\* most times the process stops
MaxStops == 1
\* most review requests received
MaxReviews == 2

\* the pcs at which a verify request awaits a store write inside the try
TryWrites == {"set_processing", "save_evidence", "insert_verdict", "update_claim"}

\* a store write of request r raises: inside the try the handler takes
\* over; in _create_alert the except logs it and verify answers 200; in the
\* handler it leaves verify and the framework answers 500
WriteFails(r) ==
    /\ rvFaults < MaxFaults
    /\ reqs[r].pc \in TryWrites \cup {"create_alert", "handler"}
    /\ reqs[r].pc = "insert_verdict" => VerdictInDBValid(reqs[r].verdict_result)
    /\ reqs[r].pc = "handler" => reqs[r].claim_id # InvalidId
    /\ rvFaults' = rvFaults + 1
    /\ reqs' = CASE reqs[r].pc \in TryWrites -> [reqs EXCEPT ![r].pc = "handler"]
                 [] reqs[r].pc = "create_alert" -> Respond(r, 200)
                 [] reqs[r].pc = "handler" -> Respond(r, 500)
    /\ UNCHANGED <<claims, verdicts, evidence, alerts, started>>
    /\ UNCHANGED <<rvStops, rvReviews, rvStopped, rvPreReview, rvResponse>>

\* the process stops: the requests in flight are gone, the stores stay
ProcessStops ==
    /\ rvStops < MaxStops
    /\ \E r \in Slots : reqs[r].pc \notin {"idle", "done"}
    /\ rvStops' = rvStops + 1
    /\ rvStopped' = rvStopped \cup
          {[claim_id |-> reqs[r].claim_id, pc |-> reqs[r].pc, verdict_id |-> reqs[r].verdict_id] :
              r \in {q \in Slots : reqs[q].pc \notin {"idle", "done"}}}
    /\ reqs' = [r \in Slots |-> NoRequest]
    /\ UNCHANGED <<claims, verdicts, evidence, alerts, started>>
    /\ UNCHANGED <<rvFaults, rvReviews, rvPreReview, rvResponse>>

\* the labels a reviewer passes as override_verdict ("" for none); the
\* parameter is an Optional[str], unvalidated
Overrides == {"", "False", "Fake"}

\* a plausible slip: the reviewed flag follows approve, like is_published
ReviewedWhenApproved(verdict, override_verdict, notes, approve) ==
    [verdict EXCEPT
        !.human_reviewed = approve,
        !.is_published = approve,
        !.verdict = IF override_verdict # "" THEN override_verdict ELSE @,
        !.reviewer_notes = IF notes # 0 THEN notes ELSE @]

\* update_data of human_review applied to a verdict record
Reviewed(verdict, override_verdict, notes, approve) ==
    [verdict EXCEPT
        !.human_reviewed = TRUE,
        !.is_published = approve,
        !.verdict = IF override_verdict # "" THEN override_verdict ELSE @,
        !.reviewer_notes = IF notes # 0 THEN notes ELSE @]

\* POST /review/{verdict_id}: 500 on an invalid id (InvalidId is caught by
\* except Exception), 404 when there is no such verdict, else the update,
\* which answers 500 when the write fails
HumanReview(verdict_id, override_verdict, notes, approve, fails) ==
    /\ rvReviews < MaxReviews
    /\ rvReviews' = rvReviews + 1
    /\ fails => verdict_id \in 1..Len(verdicts)
    /\ IF verdict_id = InvalidId
       THEN /\ rvResponse' = [status_code |-> 500, verdict_id |-> verdict_id]
            /\ UNCHANGED <<verdicts, rvPreReview>>
       ELSE IF verdict_id \notin 1..Len(verdicts)
       THEN /\ rvResponse' = [status_code |-> 404, verdict_id |-> verdict_id]
            /\ UNCHANGED <<verdicts, rvPreReview>>
       ELSE IF fails
       THEN /\ rvResponse' = [status_code |-> 500, verdict_id |-> verdict_id]
            /\ UNCHANGED <<verdicts, rvPreReview>>
       ELSE /\ verdicts' = [verdicts EXCEPT
                                ![verdict_id] = Reviewed(@, override_verdict, notes, approve)]
            /\ rvPreReview' =
                  IF verdict_id \in DOMAIN rvPreReview THEN rvPreReview
                  ELSE [i \in DOMAIN rvPreReview \cup {verdict_id} |->
                           IF i = verdict_id THEN verdicts[i].verdict ELSE rvPreReview[i]]
            /\ rvResponse' = [status_code |-> 200, verdict_id |-> verdict_id]
    /\ UNCHANGED <<claims, evidence, alerts, reqs, started>>
    /\ UNCHANGED <<rvFaults, rvStops, rvStopped>>

\* the evidence and the verdict of a verification that went well: one
\* registry hit and two articles, a well-formed output of harm 69.9
RvSources ==
    retrieve_evidence(GoogleAnswer(1),
                      <<EvidenceSource(2, 2, 50), EvidenceSource(3, 3, 95)>>).sources
RvVerdict == fact_check(Json(PlResult(699)), RvSources).value

\* the stores hold one claim: just ingested, or already verified once
RvInit ==
    /\ \/ /\ claims = <<[status |-> "pending", verdict_id |-> 0]>>
          /\ verdicts = <<>> /\ evidence = <<>>
       \/ /\ claims = <<[status |-> "verified", verdict_id |-> 1]>>
          /\ verdicts = <<VerdictInDB(1, RvVerdict)>>
          /\ evidence = <<[claim_id |-> 1, sources |-> RvSources]>>
    /\ alerts = <<>>
    /\ reqs = [r \in Slots |-> NoRequest]
    /\ started = 0
    /\ rvFaults = 0 /\ rvStops = 0 /\ rvReviews = 0
    /\ rvStopped = {} /\ rvPreReview = <<>> /\ rvResponse = None

RvIdle ==
    /\ rvFaults = 0 /\ rvStops = 0 /\ rvReviews = 0
    /\ rvStopped = {} /\ rvPreReview = <<>> /\ rvResponse = None

----------------------------------------------------------------------------
(* Claim detection and ingestion: agents/claim_detector.py,                *)
(* routers/claims.py, models/schemas.py                                    *)

\* A raw value of the detection output: t is "missing" (no such key),
\* "null" (None, or a value of a type that is none of the others), "bool",
\* "num", "nan", "str" (v: its length, or the string where it is a label)
\* or "list" (v: "empty", "good" for entities that are well-formed, "bad"
\* for a list with an entry that is no entity).
DcRaw(t, v) == [t |-> t, v |-> v]

\* the five claim types of ClaimBase.claim_type
claim_types == {"health", "politics", "general", "science", "business"}

\* a plausible slip: the confidence is passed on as received
DcConfidenceUnclamped(raw) ==
    CASE raw.t = "missing" -> [raised |-> FALSE, value |-> 0]
      [] raw.t = "num" -> [raised |-> FALSE, value |-> raw.v]
      [] raw.t = "nan" -> [raised |-> FALSE, value |-> 100]
      [] OTHER -> [raised |-> TRUE, value |-> "TypeError"]

\* max(0.0, min(1.0, result.get("confidence", 0.0))), in hundredths: no
\* float() here, so a string or None makes min raise TypeError; NaN gives
\* 1.0 (the comparison nan < 1.0 is false)
DcConfidence(raw) ==
    CASE raw.t = "missing" -> [raised |-> FALSE, value |-> 0]
      [] raw.t = "num" -> [raised |-> FALSE, value |-> Max(0, Min(100, raw.v))]
      [] raw.t = "nan" -> [raised |-> FALSE, value |-> 100]
      [] OTHER -> [raised |-> TRUE, value |-> "TypeError"]

\* result.get(key, default)
DcGet(raw, default) == IF raw.t = "missing" THEN default ELSE raw

\* the record of the except branch of detect_claim
DetectionError(error) ==
    [is_claim |-> DcRaw("bool", FALSE), claim_text |-> DcRaw("str", 0),
     entities |-> DcRaw("list", "empty"), claim_type |-> DcRaw("str", "general"),
     confidence |-> 0, error |-> error]

\* _validate_response
_validate_response(result) ==
    [is_claim |-> DcGet(result.is_claim, DcRaw("bool", FALSE)),
     claim_text |-> DcGet(result.claim_text, DcRaw("str", 0)),
     entities |-> DcGet(result.entities, DcRaw("list", "empty")),
     claim_type |-> DcGet(result.claim_type, DcRaw("str", "general")),
     confidence |-> DcConfidence(result.confidence).value,
     reasoning |-> DcGet(result.reasoning, DcRaw("str", 0))]

\* detect_claim: llm is a failure of the call, output that json.loads
\* rejects, a JSON value that is no object, or a JSON object
detect_claim(llm) ==
    CASE llm.kind \in {"api_error", "timeout", "malformed"} -> DetectionError(llm.kind)
      [] llm.kind = "nondict" -> DetectionError("AttributeError")
      [] DcConfidence(llm.result.confidence).raised -> DetectionError("TypeError")
      [] OTHER -> _validate_response(llm.result)

\* Python's truth value of detection_result["is_claim"]
Truthy(raw) ==
    CASE raw.t = "bool" -> raw.v
      [] raw.t = "str" -> raw.v # 0
      [] raw.t = "num" -> raw.v # 0
      [] raw.t = "list" -> raw.v # "empty"
      [] OTHER -> raw.t = "nan"

\* ClaimInDB(...): the pydantic (v1) validation of the fields ingest_text
\* takes from the detection result (a number is coerced to a string)
ClaimInDBValid(d) ==
    /\ d.claim_text.t \in {"str", "num"}
    /\ d.claim_text.v >= 10 /\ d.claim_text.v <= 5000
    /\ d.entities.t = "list" /\ d.entities.v \in {"empty", "good"}
    /\ d.claim_type.t = "str" /\ d.claim_type.v \in claim_types
    /\ d.confidence >= 0 /\ d.confidence <= 100

(* The inputs of the ingestion specification.                              *)

RawIsClaim ==
    {DcRaw("missing", 0), DcRaw("null", 0), DcRaw("bool", TRUE), DcRaw("bool", FALSE),
     DcRaw("str", 3)}
RawClaimText ==
    {DcRaw("missing", 0), DcRaw("null", 0), DcRaw("str", 0), DcRaw("str", 9),
     DcRaw("str", 10), DcRaw("str", 5000), DcRaw("str", 5001), DcRaw("num", 4)}
RawEntities ==
    {DcRaw("missing", 0), DcRaw("list", "empty"), DcRaw("list", "good"),
     DcRaw("list", "bad"), DcRaw("str", 5)}
RawClaimType ==
    {DcRaw("missing", 0), DcRaw("null", 0), DcRaw("str", "health"), DcRaw("str", "sports")}
RawDcConfidence ==
    {DcRaw("missing", 0), DcRaw("null", 0), DcRaw("num", -20), DcRaw("num", 0),
     DcRaw("num", 85), DcRaw("num", 100), DcRaw("num", 150), DcRaw("nan", 0), DcRaw("str", 3)}

DcResults ==
    [is_claim : RawIsClaim, claim_text : RawClaimText, entities : RawEntities,
     claim_type : RawClaimType, confidence : RawDcConfidence,
     reasoning : {DcRaw("missing", 0), DcRaw("str", 20)}]

\* an output without a result: a failure of the call, or no JSON object
DcFailure(kind) == [kind |-> kind, result |-> None]

DcOutputs ==
    {DcFailure(k) : k \in {"api_error", "timeout", "malformed", "nondict"}}
        \cup {[kind |-> "json", result |-> r] : r \in DcResults}

IgInit ==
    /\ dcRaw \in DcOutputs
    /\ dcResult = None
    /\ igPc = "start"
    /\ igResponse = None

IgIdle ==
    /\ dcRaw = DcFailure("api_error") /\ dcResult = None
    /\ igPc = "idle" /\ igResponse = None

\* detection_result = await claim_detector.detect_claim(request.text)
DetectClaim ==
    /\ igPc = "start"
    /\ dcResult' = detect_claim(dcRaw)
    /\ igPc' = "detected"
    /\ UNCHANGED <<dcRaw, igResponse, claims>>

\* the rest of ingest_text: the no-claim response, or ClaimInDB, the
\* insert and the response; a validation error is caught at the bottom
\* and raised as HTTP 500 (generate_embedding and add_claim_to_index
\* catch their own exceptions)
IngestRespond ==
    /\ igPc = "detected"
    /\ igPc' = "responded"
    /\ IF ~Truthy(dcResult.is_claim)
       THEN /\ igResponse' = [status_code |-> 200, is_claim |-> FALSE, claim_id |-> 0]
            /\ UNCHANGED claims
       ELSE IF ~ClaimInDBValid(dcResult)
       THEN /\ igResponse' = [status_code |-> 500, is_claim |-> FALSE, claim_id |-> 0]
            /\ UNCHANGED claims
       ELSE /\ claims' = Append(claims, [status |-> "pending", verdict_id |-> 0])
            /\ igResponse' = [status_code |-> 200, is_claim |-> TRUE,
                              claim_id |-> Len(claims) + 1]
    /\ UNCHANGED <<dcRaw, dcResult>>

----------------------------------------------------------------------------
(* The similarity index: services/embedding_service.py                     *)
(* A vector is a natural number (one coordinate); the L2 distance faiss    *)
(* returns is the squared difference.  Positions are counted from 1 here,  *)
(* from 0 in the code.                                                     *)

\* largest coordinate of a vector
MaxCoordinate == 2
\* most claims added to the index
MaxInserts == 3
\* most crashes
MaxCrashes == 1

Vectors == 0..MaxCoordinate

\* the requests that may hold an EmbeddingService at the same time
Services == {"s1", "s2"}

Absent == [exists |-> FALSE, data |-> <<>>]
File(data) == [exists |-> TRUE, data |-> data]

\* a slot without a request
NoService == [pc |-> "none", index |-> <<>>, metadata |-> <<>>, claim_id |-> 0]

\* _load_or_create_index: both files exist -> what they hold, as it is;
\* otherwise a new index and empty metadata
_load_or_create_index ==
    IF fileIndex.exists /\ fileMeta.exists
    THEN [index |-> fileIndex.data, metadata |-> fileMeta.data]
    ELSE [index |-> <<>>, metadata |-> <<>>]

Dist(a, b) == (a - b) * (a - b)

\* 1 / (1 + distance), in hundredths (rounded down)
Similarity(d) == 100 \div (1 + d)

\* what index.search(query, kk) may return as indices: kk positions in
\* ascending distance, no position left out being nearer than one
\* returned; the order of equal distances is not specified
SearchHits(index, query, kk) ==
    {h \in [1..kk -> 1..Len(index)] :
        /\ \A i, j \in 1..kk : i # j => h[i] # h[j]
        /\ \A i \in 1..(kk - 1) : Dist(index[h[i]], query) <= Dist(index[h[i + 1]], query)
        /\ \A p \in 1..Len(index) :
              (\A i \in 1..kk : h[i] # p)
                  => \A i \in 1..kk : Dist(index[h[i]], query) <= Dist(index[p], query)}

\* the loop of find_similar_claims over the positions returned
RECURSIVE FormatHits(_, _, _, _, _)
FormatHits(h, index, metadata, query, threshold) ==
    IF h = <<>> THEN <<>>
    ELSE LET idx == Head(h)
             similarity == Similarity(Dist(index[idx], query))
             rest == FormatHits(Tail(h), index, metadata, query, threshold)
         IN IF idx <= Len(metadata) /\ similarity >= threshold
            THEN <<[claim_id |-> metadata[idx].claim_id,
                    similarity_score |-> similarity]>> \o rest
            ELSE rest

\* find_similar_claims, given the positions h the search returned (k <= 0
\* makes faiss raise, which the except turns into [])
find_similar_claims(index, metadata, query, k, threshold, h) ==
    IF Len(index) = 0 \/ k <= 0 THEN <<>>
    ELSE FormatHits(h, index, metadata, query, threshold)

IxInit ==
    /\ fileIndex = Absent /\ fileMeta = Absent
    /\ svc = [s \in Services |-> NoService]
    /\ ixInserted = <<>> /\ ixCompleted = {}
    /\ ixCrashes = 0
    /\ ixSearch = None

IxIdle == IxInit

\* no _save_index is between its two writes (it has no await: within the
\* process nothing else runs until it returns)
NoSaveUnderWay == \A s \in Services : svc[s].pc # "saving"

\* EmbeddingService(): a request builds its service from the files
Construct(s) ==
    /\ ixSearch = None /\ NoSaveUnderWay
    /\ svc[s].pc = "none"
    /\ svc' = [svc EXCEPT ![s] = [pc |-> "loaded",
                                  index |-> _load_or_create_index.index,
                                  metadata |-> _load_or_create_index.metadata,
                                  claim_id |-> 0]]
    /\ UNCHANGED <<fileIndex, fileMeta, ixInserted, ixCompleted, ixCrashes, ixSearch>>

\* add_claim_to_index up to the first write of _save_index: index.add,
\* metadata.append, faiss.write_index
AddClaim(s, vector) ==
    /\ ixSearch = None /\ NoSaveUnderWay
    /\ svc[s].pc = "loaded"
    /\ Len(ixInserted) < MaxInserts
    /\ LET claim_id == Len(ixInserted) + 1
           index == Append(svc[s].index, vector)
           metadata == Append(svc[s].metadata,
                              [claim_id |-> claim_id, index_position |-> Len(index)])
       IN /\ svc' = [svc EXCEPT ![s] = [pc |-> "saving", index |-> index,
                                        metadata |-> metadata, claim_id |-> claim_id]]
          /\ fileIndex' = File(index)
          /\ ixInserted' = Append(ixInserted, vector)
    /\ UNCHANGED <<fileMeta, ixCompleted, ixCrashes, ixSearch>>

\* the second write of _save_index, pickle.dump, and the return
WriteMetadata(s) ==
    /\ svc[s].pc = "saving"
    /\ fileMeta' = File(svc[s].metadata)
    /\ svc' = [svc EXCEPT ![s].pc = "added"]
    /\ ixCompleted' = ixCompleted \cup {svc[s].claim_id}
    /\ UNCHANGED <<fileIndex, ixInserted, ixCrashes, ixSearch>>

\* find_similar_claims on the service of a request
Search(s, query, k, threshold) ==
    /\ ixSearch = None /\ NoSaveUnderWay
    /\ svc[s].pc \in {"loaded", "added"}
    /\ \E h \in SearchHits(svc[s].index, query, Min(Max(k, 0), Len(svc[s].index))) :
          ixSearch' = [index |-> svc[s].index, metadata |-> svc[s].metadata,
                       query |-> query, k |-> k, threshold |-> threshold,
                       results |-> find_similar_claims(svc[s].index, svc[s].metadata,
                                                       query, k, threshold, h)]
    /\ UNCHANGED <<fileIndex, fileMeta, svc, ixInserted, ixCompleted, ixCrashes>>

\* the results are returned to the caller
ReturnResults ==
    /\ ixSearch # None
    /\ ixSearch' = None
    /\ UNCHANGED <<fileIndex, fileMeta, svc, ixInserted, ixCompleted, ixCrashes>>

\* the request ends; its service is dropped
EndRequest(s) ==
    /\ ixSearch = None /\ NoSaveUnderWay
    /\ svc[s].pc \in {"loaded", "added"}
    /\ svc' = [svc EXCEPT ![s] = NoService]
    /\ UNCHANGED <<fileIndex, fileMeta, ixInserted, ixCompleted, ixCrashes, ixSearch>>

\* the process is killed and restarted: every service is lost, the files
\* stay as they are
Crash ==
    /\ ixCrashes < MaxCrashes
    /\ \E s \in Services : svc[s].pc # "none"
    /\ svc' = [s \in Services |-> NoService]
    /\ ixCrashes' = ixCrashes + 1
    /\ ixSearch' = None
    /\ UNCHANGED <<fileIndex, fileMeta, ixInserted, ixCompleted>>

----------------------------------------------------------------------------
(* Clustering: services/clustering_service.py                              *)
(* The _id of a claim is an ObjectId, [oid |-> n] here; str(_id) is        *)
(* [str |-> n], a value of another type.  A cluster_id                      *)
(* "cluster_<label>_<seconds>" is the pair <<label, seconds>>.              *)

\* MIN_CLUSTER_SIZE, by default
min_cluster_size == 3

\* most claims in the store
MaxCkClaims == 3
\* most runs of cluster_recent_claims
MaxRuns == 2
\* most advances of the clock
MaxTicks == 1
\* largest label HDBSCAN gives
MaxLabel == 0

ObjectId(n) == [oid |-> n]
\* str(claim["_id"])
Str(id) == [str |-> id.oid]

\* a plausible slip: the created_at condition left out of the query
EligibleAnyTime(claim, cutoff_time) == claim.embedding # "null"

\* the filter of db.claims.find: created_at >= cutoff_time, embedding
\* exists and is not None
Eligible(claim, cutoff_time) ==
    claim.created_at >= cutoff_time /\ claim.embedding # "null"

\* what fit_predict may return for the claims at the positions of E: -1
\* for noise, or a label; every label in use has at least
\* min_cluster_size members, and labels are used from 0 upward
Labellings(E) ==
    {f \in [E -> -1..MaxLabel] :
        \A l \in 0..MaxLabel :
            LET members == {i \in E : f[i] = l} IN
            members # {} =>
                /\ Cardinality(members) >= min_cluster_size
                /\ \A m \in 0..(l - 1) : \E i \in E : f[i] = m}

\* the positions of E with label l, in the order of the store
RECURSIVE MembersFrom(_, _, _, _)
MembersFrom(f, l, i, n) ==
    IF i > n THEN <<>>
    ELSE (IF i \in DOMAIN f /\ f[i] = l THEN <<Str(ObjectId(i))>> ELSE <<>>)
             \o MembersFrom(f, l, i + 1, n)

\* _format_cluster
_format_cluster(label, claim_ids, now) ==
    [cluster_id |-> <<label, now>>, claim_ids |-> claim_ids,
     claim_count |-> Len(claim_ids), is_trending |-> Len(claim_ids) >= 5]

\* _run_hdbscan_clustering: the clusters of a labelling, by label
RECURSIVE FormattedFrom(_, _, _, _)
FormattedFrom(f, l, n, now) ==
    IF l > MaxLabel THEN <<>>
    ELSE LET claim_ids == MembersFrom(f, l, 1, n) IN
         (IF claim_ids = <<>> THEN <<>> ELSE <<_format_cluster(l, claim_ids, now)>>)
             \o FormattedFrom(f, l + 1, n, now)

\* db.clusters.update_one({"cluster_id": ...}, {"$set": cluster}, upsert=True)
Upsert(store, cluster) ==
    {c \in store : c.cluster_id # cluster.cluster_id} \cup {cluster}

\* db.claims.update_many({"_id": {"$in": claim_ids}}, {"$set": {"cluster_id": ...}}):
\* the documents whose _id equals an element of claim_ids
UpdateMany(store, claim_ids, cluster_id) ==
    [i \in DOMAIN store |->
        IF ObjectId(i) \in Range(claim_ids)
        THEN [store[i] EXCEPT !.cluster_id = cluster_id]
        ELSE store[i]]

\* _save_clusters: the stores after the clusters were saved in order
RECURSIVE SaveClusters(_, _, _)
SaveClusters(clusters, store, claimStore) ==
    IF clusters = <<>> THEN [clusters |-> store, claims |-> claimStore]
    ELSE SaveClusters(Tail(clusters), Upsert(store, Head(clusters)),
                      UpdateMany(claimStore, Head(clusters).claim_ids,
                                 Head(clusters).cluster_id))

NoCluster == <<>>

CkInit ==
    /\ ckClaims = <<>>
    /\ ckClusters = {}
    /\ ckRuns = <<>>
    /\ ckNow = 0
    /\ ckTicks = 0

CkIdle == CkInit

\* a claim is stored, with or without an embedding
StoreClaim(embedding) ==
    /\ Len(ckClaims) < MaxCkClaims
    /\ ckClaims' = Append(ckClaims, [created_at |-> ckNow, embedding |-> embedding,
                                     cluster_id |-> NoCluster])
    /\ UNCHANGED <<ckClusters, ckRuns, ckNow, ckTicks>>

\* time passes: a second, or two hours
Tick(seconds) ==
    /\ ckTicks < MaxTicks
    /\ ckNow' = ckNow + seconds
    /\ ckTicks' = ckTicks + 1
    /\ UNCHANGED <<ckClaims, ckClusters, ckRuns>>

\* one run of cluster_recent_claims(hours)
ClusterRecentClaims(hours) ==
    /\ Len(ckRuns) < MaxRuns
    /\ LET cutoff_time == ckNow - hours * 3600
           E == {i \in 1..Len(ckClaims) : Eligible(ckClaims[i], cutoff_time)}
       IN IF Cardinality(E) < min_cluster_size
          THEN /\ ckRuns' = Append(ckRuns, [hours |-> hours, at |-> ckNow,
                                            clusters |-> <<>>])
               /\ UNCHANGED <<ckClaims, ckClusters>>
          ELSE \E f \in Labellings(E) :
                  LET clusters == FormattedFrom(f, 0, Len(ckClaims), ckNow)
                      saved == SaveClusters(clusters, ckClusters, ckClaims)
                  IN /\ ckClusters' = saved.clusters
                     /\ ckClaims' = saved.claims
                     /\ ckRuns' = Append(ckRuns, [hours |-> hours, at |-> ckNow,
                                                  clusters |-> clusters])
    /\ UNCHANGED <<ckNow, ckTicks>>

----------------------------------------------------------------------------
(* The reliability heuristic: agents/evidence_retriever.py                 *)
(* A domain is the sequence of its dot-separated labels, "www.cdc.gov"     *)
(* being <<"www", "cdc", "gov">>; a label keeps the case it was given in.  *)

\* most labels of a domain
MaxLabels == 3

\* the labels domains are made of
Labels == {"who", "int", "cdc", "gov", "cnn", "com", "edu", "news", "GOV", "CNN"}

\* str.lower() on a label
LowerLabel(l) == CASE l = "GOV" -> "gov" [] l = "CNN" -> "cnn" [] OTHER -> l

\* domain.lower()
lower(domain) == [i \in 1..Len(domain) |-> LowerLabel(domain[i])]

\* d in s, on whole labels: d is a run of consecutive labels of s
Contains(s, d) == \E i \in 0..(Len(s) - Len(d)) : SubSeq(s, i + 1, i + Len(d)) = d

\* the high-reliability list (two of its twelve entries)
high_reliability == {<<"who", "int">>, <<"cdc", "gov">>}

\* the medium-reliability list (one of its six entries)
medium_reliability == {<<"cnn", "com">>}

\* domain.endswith("." + tld): compared as given, case included
endswith(domain, tld) == Len(domain) >= 2 /\ domain[Len(domain)] = tld

\* _estimate_domain_reliability(domain), in hundredths
_estimate_domain_reliability(domain) ==
    LET domain_lower == lower(domain) IN
    IF \E d \in high_reliability : Contains(domain_lower, d) THEN 95
    ELSE IF \E d \in medium_reliability : Contains(domain_lower, d) THEN 75
    ELSE IF endswith(domain, "gov") \/ endswith(domain, "edu") THEN 85
    ELSE 50

\* the domains the heuristic is called on
Domains == UNION {[1..n -> Labels] : n \in 1..MaxLabels}

DrInit == drDomain \in Domains /\ drScore = None

DrIdle == drDomain = <<>> /\ drScore = None

\* one call of _estimate_domain_reliability
EstimateDomainReliability ==
    /\ drScore = None
    /\ drDomain # <<>>
    /\ drScore' = [score |-> _estimate_domain_reliability(drDomain)]
    /\ UNCHANGED drDomain

----------------------------------------------------------------------------
(* Specifications                                                          *)

\* one call of retrieve_evidence on every answer of the adapters
NextER ==
    \/ RetrieveEvidence /\ UNCHANGED <<fcVars, plVars, igVars, ixVars, ckVars, drVars, rvVars>>
    \/ BuildEvidenceData /\ UNCHANGED <<fcVars, plVars, igVars, ixVars, ckVars, drVars, rvVars>>
InitER == ErInit /\ FcIdle /\ PlIdle /\ IgIdle /\ IxIdle /\ CkIdle /\ DrIdle /\ RvIdle
SpecER == InitER /\ [][NextER]_vars

\* one call of fact_check on every evidence list and generation output
NextFC == FactCheck /\ UNCHANGED <<erVars, plVars, igVars, ixVars, ckVars, drVars, rvVars>>
InitFC == ErIdle /\ FcInit /\ PlIdle /\ IgIdle /\ IxIdle /\ CkIdle /\ DrIdle /\ RvIdle
SpecFC == InitFC /\ [][NextFC]_vars

\* one request to ingest_text on every output of the generation call
NextIG ==
    \/ DetectClaim /\ UNCHANGED <<erVars, fcVars, ixVars, ckVars, verdicts, evidence, alerts, reqs, started, drVars, rvVars>>
    \/ IngestRespond /\ UNCHANGED <<erVars, fcVars, ixVars, ckVars, verdicts, evidence, alerts, reqs, started, drVars, rvVars>>
InitIG == ErIdle /\ FcIdle /\ PlInit /\ IgInit /\ IxIdle /\ CkIdle /\ DrIdle /\ RvIdle
SpecIG == InitIG /\ [][NextIG]_vars

\* the similarity index: requests that build a service, add a claim and
\* search, with crashes
\* the numbers of results asked for, and the thresholds (hundredths)
SearchKs == {0, 1, 10}
Thresholds == {0, 50, 85}

NextIX ==
    \/ \E s \in Services : Construct(s) /\ UNCHANGED <<erVars, fcVars, plVars, igVars, ckVars, drVars, rvVars>>
    \/ \E s \in Services, v \in Vectors :
          AddClaim(s, v) /\ UNCHANGED <<erVars, fcVars, plVars, igVars, ckVars, drVars, rvVars>>
    \/ \E s \in Services : WriteMetadata(s) /\ UNCHANGED <<erVars, fcVars, plVars, igVars, ckVars, drVars, rvVars>>
    \/ \E s \in Services, q \in Vectors, k \in SearchKs, t \in Thresholds :
          Search(s, q, k, t) /\ UNCHANGED <<erVars, fcVars, plVars, igVars, ckVars, drVars, rvVars>>
    \/ ReturnResults /\ UNCHANGED <<erVars, fcVars, plVars, igVars, ckVars, drVars, rvVars>>
    \/ \E s \in Services : EndRequest(s) /\ UNCHANGED <<erVars, fcVars, plVars, igVars, ckVars, drVars, rvVars>>
    \/ Crash /\ UNCHANGED <<erVars, fcVars, plVars, igVars, ckVars, drVars, rvVars>>
InitIX == ErIdle /\ FcIdle /\ PlIdle /\ IgIdle /\ IxInit /\ CkIdle /\ DrIdle /\ RvIdle
SpecIX == InitIX /\ [][NextIX]_vars

\* clustering: claims are stored, time passes, cluster_recent_claims runs
NextCK ==
    \/ \E e \in {"null", "vector"} :
          StoreClaim(e) /\ UNCHANGED <<erVars, fcVars, plVars, igVars, ixVars, drVars, rvVars>>
    \/ \E d \in {1, 7200} : Tick(d) /\ UNCHANGED <<erVars, fcVars, plVars, igVars, ixVars, drVars, rvVars>>
    \/ \E hours \in {1, 24} :
          ClusterRecentClaims(hours) /\ UNCHANGED <<erVars, fcVars, plVars, igVars, ixVars, drVars, rvVars>>
InitCK == ErIdle /\ FcIdle /\ PlIdle /\ IgIdle /\ IxIdle /\ CkInit /\ DrIdle /\ RvIdle
SpecCK == InitCK /\ [][NextCK]_vars

\* one call of _estimate_domain_reliability on every domain
NextDR ==
    EstimateDomainReliability
        /\ UNCHANGED <<erVars, fcVars, plVars, igVars, ixVars, ckVars, rvVars>>
InitDR == ErIdle /\ FcIdle /\ PlIdle /\ IgIdle /\ IxIdle /\ CkIdle /\ DrInit /\ RvIdle
SpecDR == InitDR /\ [][NextDR]_vars

\* the ids requests name: the stored claim's (or verdict's), an unknown one
\* and an invalid one
RvIds == {1, 2, InvalidId}

\* the pipeline on one stored claim, with store writes that fail and process
\* stops
NextSF ==
    \/ \E r \in Slots, c \in {1}, force \in BOOLEAN :
          StartVerify(r, c, force) /\ UNCHANGED <<erVars, fcVars, igVars, ixVars, ckVars, drVars, rvVars>>
    \/ \E r \in Slots : FindClaim(r) /\ UNCHANGED <<erVars, fcVars, igVars, ixVars, ckVars, drVars, rvVars>>
    \/ \E r \in Slots : FindVerdict(r) /\ UNCHANGED <<erVars, fcVars, igVars, ixVars, ckVars, drVars, rvVars>>
    \/ \E r \in Slots : SetProcessing(r) /\ UNCHANGED <<erVars, fcVars, igVars, ixVars, ckVars, drVars, rvVars>>
    \/ \E r \in Slots : Retrieve(r) /\ UNCHANGED <<erVars, fcVars, igVars, ixVars, ckVars, drVars, rvVars>>
    \/ \E r \in Slots : SaveEvidence(r) /\ UNCHANGED <<erVars, fcVars, igVars, ixVars, ckVars, drVars, rvVars>>
    \/ \E r \in Slots : FactCheckStep(r) /\ UNCHANGED <<erVars, fcVars, igVars, ixVars, ckVars, drVars, rvVars>>
    \/ \E r \in Slots : InsertVerdict(r) /\ UNCHANGED <<erVars, fcVars, igVars, ixVars, ckVars, drVars, rvVars>>
    \/ \E r \in Slots : UpdateClaim(r) /\ UNCHANGED <<erVars, fcVars, igVars, ixVars, ckVars, drVars, rvVars>>
    \/ \E r \in Slots : CreateAlert(r) /\ UNCHANGED <<erVars, fcVars, igVars, ixVars, ckVars, drVars, rvVars>>
    \/ \E r \in Slots : HandleError(r) /\ UNCHANGED <<erVars, fcVars, igVars, ixVars, ckVars, drVars, rvVars>>
    \/ \E r \in Slots : WriteFails(r) /\ UNCHANGED <<erVars, fcVars, igVars, ixVars, ckVars, drVars>>
    \/ ProcessStops /\ UNCHANGED <<erVars, fcVars, igVars, ixVars, ckVars, drVars>>
InitSF == ErIdle /\ FcIdle /\ RvInit /\ IgIdle /\ IxIdle /\ CkIdle /\ DrIdle
SpecSF == InitSF /\ [][NextSF]_vars

\* the review requests: <<verdict_id, override_verdict, notes, approve>>,
\* every override on verdict 1, with notes and approval or with neither,
\* and a bare request on verdict 2 and on an invalid id
ReviewRequests ==
    ({1} \X Overrides \X {<<0, FALSE>>, <<1, TRUE>>}) \cup ({2, InvalidId} \X {""} \X {<<0, FALSE>>})

\* the pipeline on one stored claim, one verify request at a time, with
\* review requests between its steps
NextHR ==
    \/ \E r \in {"r1"}, c \in RvIds, force \in BOOLEAN :
          StartVerify(r, c, force) /\ UNCHANGED <<erVars, fcVars, igVars, ixVars, ckVars, drVars, rvVars>>
    \/ \E r \in {"r1"} : FindClaim(r) /\ UNCHANGED <<erVars, fcVars, igVars, ixVars, ckVars, drVars, rvVars>>
    \/ \E r \in {"r1"} : FindVerdict(r) /\ UNCHANGED <<erVars, fcVars, igVars, ixVars, ckVars, drVars, rvVars>>
    \/ \E r \in {"r1"} : SetProcessing(r) /\ UNCHANGED <<erVars, fcVars, igVars, ixVars, ckVars, drVars, rvVars>>
    \/ \E r \in {"r1"} : Retrieve(r) /\ UNCHANGED <<erVars, fcVars, igVars, ixVars, ckVars, drVars, rvVars>>
    \/ \E r \in {"r1"} : SaveEvidence(r) /\ UNCHANGED <<erVars, fcVars, igVars, ixVars, ckVars, drVars, rvVars>>
    \/ \E r \in {"r1"} : FactCheckStep(r) /\ UNCHANGED <<erVars, fcVars, igVars, ixVars, ckVars, drVars, rvVars>>
    \/ \E r \in {"r1"} : InsertVerdict(r) /\ UNCHANGED <<erVars, fcVars, igVars, ixVars, ckVars, drVars, rvVars>>
    \/ \E r \in {"r1"} : UpdateClaim(r) /\ UNCHANGED <<erVars, fcVars, igVars, ixVars, ckVars, drVars, rvVars>>
    \/ \E r \in {"r1"} : CreateAlert(r) /\ UNCHANGED <<erVars, fcVars, igVars, ixVars, ckVars, drVars, rvVars>>
    \/ \E r \in {"r1"} : HandleError(r) /\ UNCHANGED <<erVars, fcVars, igVars, ixVars, ckVars, drVars, rvVars>>
    \/ \E q \in ReviewRequests, f \in BOOLEAN :
          HumanReview(q[1], q[2], q[3][1], q[3][2], f) /\ UNCHANGED <<erVars, fcVars, igVars, ixVars, ckVars, drVars>>
InitHR == ErIdle /\ FcIdle /\ RvInit /\ IgIdle /\ IxIdle /\ CkIdle /\ DrIdle
SpecHR == InitHR /\ [][NextHR]_vars

\* the pipeline: ingestion and verify requests, interleaved at their awaits
Init == ErIdle /\ FcIdle /\ PlInit /\ IgIdle /\ IxIdle /\ CkIdle /\ DrIdle /\ RvIdle
Next ==
    \/ Ingest /\ UNCHANGED <<erVars, fcVars, igVars, ixVars, ckVars, drVars, rvVars>>
    \/ \E r \in Slots, c \in 1..MaxClaims, force \in BOOLEAN :
          StartVerify(r, c, force) /\ UNCHANGED <<erVars, fcVars, igVars, ixVars, ckVars, drVars, rvVars>>
    \/ \E r \in Slots : FindClaim(r) /\ UNCHANGED <<erVars, fcVars, igVars, ixVars, ckVars, drVars, rvVars>>
    \/ \E r \in Slots : FindVerdict(r) /\ UNCHANGED <<erVars, fcVars, igVars, ixVars, ckVars, drVars, rvVars>>
    \/ \E r \in Slots : SetProcessing(r) /\ UNCHANGED <<erVars, fcVars, igVars, ixVars, ckVars, drVars, rvVars>>
    \/ \E r \in Slots : Retrieve(r) /\ UNCHANGED <<erVars, fcVars, igVars, ixVars, ckVars, drVars, rvVars>>
    \/ \E r \in Slots : SaveEvidence(r) /\ UNCHANGED <<erVars, fcVars, igVars, ixVars, ckVars, drVars, rvVars>>
    \/ \E r \in Slots : FactCheckStep(r) /\ UNCHANGED <<erVars, fcVars, igVars, ixVars, ckVars, drVars, rvVars>>
    \/ \E r \in Slots : InsertVerdict(r) /\ UNCHANGED <<erVars, fcVars, igVars, ixVars, ckVars, drVars, rvVars>>
    \/ \E r \in Slots : UpdateClaim(r) /\ UNCHANGED <<erVars, fcVars, igVars, ixVars, ckVars, drVars, rvVars>>
    \/ \E r \in Slots : CreateAlert(r) /\ UNCHANGED <<erVars, fcVars, igVars, ixVars, ckVars, drVars, rvVars>>
    \/ \E r \in Slots : HandleError(r) /\ UNCHANGED <<erVars, fcVars, igVars, ixVars, ckVars, drVars, rvVars>>
Spec == Init /\ [][Next]_vars

----------------------------------------------------------------------------
(* Properties of evidence retrieval                                        *)

\* all_sources of the call
ErAllSources == AllSources(Gathered(erOutcome, erGoogle, erNews))

\* index of the first entry of s that carries the URL u
FirstIndex(s, u) == CHOOSE i \in 1..Len(s) : s[i].url = u /\ \A j \in 1..(i - 1) : s[j].url # u

\* C9: _deduplicate_sources returns a list in which no two entries share a
\* URL; every entry returned is the first entry of the input with its URL,
\* fields unchanged; the entries come in input order; and every non-empty
\* URL of the input is kept (entries with an empty URL are dropped).
C9_DedupFirstWins ==
    erPc = "done" =>
        /\ \A i, j \in 1..Len(erUnique) : i # j => erUnique[i].url # erUnique[j].url
        /\ \A k \in 1..Len(erUnique) :
              /\ erUnique[k].url # EmptyUrl
              /\ \E i \in 1..Len(ErAllSources) : ErAllSources[i].url = erUnique[k].url
              /\ erUnique[k] = ErAllSources[FirstIndex(ErAllSources, erUnique[k].url)]
        /\ \A k \in 1..(Len(erUnique) - 1) :
              FirstIndex(ErAllSources, erUnique[k].url)
                  < FirstIndex(ErAllSources, erUnique[k + 1].url)
        /\ \A i \in 1..Len(ErAllSources) :
              ErAllSources[i].url # EmptyUrl
                  => \E k \in 1..Len(erUnique) : erUnique[k].url = ErAllSources[i].url

\* a call whose input repeats a URL with other fields, and has an empty URL
C9_Witness ==
    /\ erPc = "done"
    /\ \E i, j \in 1..Len(ErAllSources) :
          /\ i < j
          /\ ErAllSources[i].url = ErAllSources[j].url
          /\ ErAllSources[i].url # EmptyUrl
          /\ ErAllSources[i].reliability_score # ErAllSources[j].reliability_score
    /\ Len(erUnique) >= 2

\* position of the entry x of unique_sources (URLs are unique there)
UniqueIndex(x) == CHOOSE k \in 1..Len(erUnique) : erUnique[k] = x

\* C10: retrieve_evidence returns the deduplicated sources sorted by
\* reliability_score descending, equal scores in encounter order, cut to
\* at most max_sources entries; no source left out has a higher score than
\* a returned one.
C10_RankedTruncated ==
    erPc = "done" =>
        LET out == erResult.sources IN
        /\ Len(out) = Min(Len(erUnique), max_sources)
        /\ \A i \in 1..Len(out) : out[i] \in Range(erUnique)
        /\ \A i, j \in 1..Len(out) : i # j => out[i] # out[j]
        /\ \A i, j \in 1..Len(out) : i < j =>
              \/ out[i].reliability_score > out[j].reliability_score
              \/ /\ out[i].reliability_score = out[j].reliability_score
                 /\ UniqueIndex(out[i]) < UniqueIndex(out[j])
        /\ \A x \in Range(erUnique) \ Range(out) : \A i \in 1..Len(out) :
              \/ x.reliability_score < out[i].reliability_score
              \/ /\ x.reliability_score = out[i].reliability_score
                 /\ UniqueIndex(out[i]) < UniqueIndex(x)

\* a call that finds more than max_sources unique sources, out of order,
\* with equal scores among them
C10_Witness ==
    /\ erPc = "done"
    /\ Len(erUnique) > max_sources
    /\ Len(erResult.sources) = max_sources
    /\ erResult.sources # Take(erUnique, max_sources)
    /\ \E i, j \in 1..Len(erResult.sources) :
          i # j /\ erResult.sources[i].reliability_score = erResult.sources[j].reliability_score
    /\ \E x \in Range(erUnique) \ Range(erResult.sources) :
          x.reliability_score < erResult.sources[max_sources].reliability_score

----------------------------------------------------------------------------
(* Properties of fact checking                                             *)

FcUrls == {fcEvidence[j].url : j \in 1..Len(fcEvidence)}

\* the call went through the validation without an exception
FcValidated == fcLlm.kind = "json" /\ ValidationError(fcLlm.result) = "none"

\* the sources the output cites (none when the key is absent)
FcCited == IF fcLlm.result.sources.t = "list" THEN fcLlm.result.sources.items ELSE <<>>

\* C1: whatever the generation call returns, every source of the returned
\* verdict has a link that is the url of an evidence source passed in; with
\* no evidence the returned sources are empty.
C1_SourcesFromEvidence ==
    fcPc = "done" =>
        /\ \A i \in 1..Len(fcVerdict.value.sources) :
              fcVerdict.value.sources[i].link \in FcUrls
        /\ (Len(fcEvidence) = 0 => Len(fcVerdict.value.sources) = 0)

\* a call whose output cites a fabricated link beside a real one
C1_Witness ==
    /\ fcPc = "done"
    /\ FcValidated
    /\ \E i \in 1..Len(FcCited) : FcCited[i].link = 99
    /\ \E i \in 1..Len(FcCited) : FcCited[i].link \in FcUrls
    /\ Len(fcVerdict.value.sources) = 1

\* no source cited by the output matches an evidence URL, and there is
\* evidence
FcFallbackCase ==
    /\ fcPc = "done"
    /\ FcValidated
    /\ \A i \in 1..Len(FcCited) : FcCited[i].link \notin FcUrls
    /\ Len(fcEvidence) > 0

\* the returned sources are k entries of the evidence with the highest
\* reliability (title is the position of an entry in the evidence)
FcCitesTopByReliability ==
    LET out == fcVerdict.value.sources
        picked == {out[k].title : k \in 1..Len(out)}
    IN /\ Len(out) = Min(3, Len(fcEvidence))
       /\ Cardinality(picked) = Len(out)
       /\ picked \subseteq 1..Len(fcEvidence)
       /\ \A k \in 1..Len(out) : out[k] = SourceReference(fcEvidence[out[k].title])
       /\ \A i \in picked : \A j \in (1..Len(fcEvidence)) \ picked :
             fcEvidence[j].reliability_score <= fcEvidence[i].reliability_score

FcEvidenceRanked ==
    \A i \in 1..(Len(fcEvidence) - 1) :
        fcEvidence[i].reliability_score >= fcEvidence[i + 1].reliability_score

C7_NeverRaises ==
    fcPc = "done" =>
        /\ ~fcVerdict.raised
        /\ ~FcValidated =>
              /\ fcVerdict.value.verdict = "Unverified"
              /\ fcVerdict.value.confidence = 0
              /\ fcVerdict.value.harm_score = 0
              /\ fcVerdict.value.recommended_action = "monitor"
              /\ Len(fcVerdict.value.sources) = 0
              /\ fcVerdict.value.reasoning.error # "none"
              /\ fcVerdict.value.reasoning.error =
                    (IF fcLlm.kind = "json" THEN ValidationError(fcLlm.result) ELSE fcLlm.kind)

\* a call whose output parses and then fails validation: a harm_score of
\* NaN, evidence present and a real source cited
C7_Witness ==
    /\ fcPc = "done"
    /\ fcLlm.kind = "json"
    /\ fcLlm.result.harm_score.t = "nan"
    /\ fcLlm.result.confidence.t = "num"
    /\ Len(fcEvidence) > 0
    /\ \E i \in 1..Len(FcCited) : FcCited[i].link \in FcUrls
    /\ fcVerdict.value.reasoning.error = "ValueError"

\* C8: every verdict returned by fact_check has a label among the five
\* verdict values (any other becomes Unverified), an action among the five
\* actions (any other becomes monitor), a confidence in [0,1] and an
\* integer harm_score in [0,100].
C8_VerdictInRange ==
    fcPc = "done" =>
        /\ fcVerdict.value.verdict \in valid_verdicts
        /\ fcVerdict.value.recommended_action \in valid_actions
        /\ fcVerdict.value.confidence \in 0..100
        /\ fcVerdict.value.harm_score \in 0..100
        /\ FcValidated =>
              /\ fcVerdict.value.verdict =
                    (IF fcLlm.result.verdict \in valid_verdicts
                     THEN fcLlm.result.verdict ELSE "Unverified")
              /\ fcVerdict.value.recommended_action =
                    (IF fcLlm.result.recommended_action \in valid_actions
                     THEN fcLlm.result.recommended_action ELSE "monitor")

\* an output with an unknown label and action, a confidence above 1 and a
\* negative harm_score, validated without an exception
C8_Witness ==
    /\ fcPc = "done"
    /\ FcValidated
    /\ fcLlm.result.verdict = "Maybe"
    /\ fcLlm.result.recommended_action = "delete"
    /\ fcLlm.result.confidence = Raw("num", 150)
    /\ fcLlm.result.harm_score = Raw("num", -25)
    /\ fcVerdict.value.verdict = "Unverified"
    /\ fcVerdict.value.recommended_action = "monitor"
    /\ fcVerdict.value.confidence = 100
    /\ fcVerdict.value.harm_score = 0

----------------------------------------------------------------------------
(* Properties of the verification pipeline                                 *)

\* request r has ended after running the pipeline (it neither answered 404
\* nor returned a stored verdict)
RanPipeline(r) ==
    /\ reqs[r].pc = "done"
    /\ \/ reqs[r].status_code = 500
       \/ /\ reqs[r].status_code = 200
          /\ reqs[r].claim_verdict_id = 0 \/ reqs[r].force_reverify

\* C2: a verify that finds no evidence (no provider configured) ends with
\* a persisted verdict Unverified, sources [], harm_score 0, and the claim
\* verified.
C2_NoProviderEndsVerified ==
    \A r \in Slots :
        (RanPipeline(r) /\ Len(reqs[r].sources) = 0) =>
            /\ reqs[r].status_code = 200
            /\ claims[reqs[r].claim_id].status = "verified"
            /\ reqs[r].verdict_id \in 1..Len(verdicts)
            /\ verdicts[reqs[r].verdict_id].verdict = "Unverified"
            /\ Len(verdicts[reqs[r].verdict_id].sources) = 0
            /\ verdicts[reqs[r].verdict_id].harm_score = 0

\* C3: a claim whose status is verified has a verdict_id that references a
\* record of the verdict store, a verdict of that claim.
C3_VerifiedHasVerdict ==
    \A c \in 1..Len(claims) :
        claims[c].status = "verified" =>
            /\ claims[c].verdict_id \in 1..Len(verdicts)
            /\ verdicts[claims[c].verdict_id].claim_id = c

\* a verified claim read while a second request for it has inserted its
\* verdict and not yet stamped the claim
C3_Witness ==
    \E c \in 1..Len(claims) : \E r \in Slots :
        /\ claims[c].status = "verified"
        /\ reqs[r].pc = "update_claim"
        /\ reqs[r].claim_id = c
        /\ reqs[r].verdict_id # claims[c].verdict_id
        /\ Len(verdicts) = 2

\* C4: the status of a claim changes to verified or error only from
\* processing.
C4_TerminalOnlyFromProcessing ==
    [][\A c \in 1..Len(claims) :
          (claims'[c].status # claims[c].status /\ claims'[c].status \in {"verified", "error"})
              => claims[c].status = "processing"]_vars

----------------------------------------------------------------------------
(* Properties of the adapters and of the failure path of retrieval         *)

\* what the adapters that answered built, in the order of the tasks
ErAnswered ==
    (IF erOutcome.google = "ok" THEN erGoogle ELSE <<>>)
        \o (IF erOutcome.news = "ok" THEN erNews ELSE <<>>)

\* C11: when an adapter raises, times out or has no credential,
\* retrieve_evidence still returns the multi-source record, and its sources
\* are exactly the deduplicated, ranked and truncated results of the
\* adapters that answered; the failing adapter counts for an empty list.
C11_AdaptersFailSoft ==
    (/\ erPc \in {"done", "saved"}
     /\ (erOutcome.google # "ok" \/ erOutcome.news # "ok")) =>
        /\ DOMAIN erResult = EvidenceKeys
        /\ erResult.retrieval_method = "multi-source"
        /\ erResult.total_sources_found = Len(ErAnswered)
        /\ erResult.sources
              = Take(_rank_sources(_deduplicate_sources(ErAnswered)), max_sources)

\* the registry adapter fails after the request was sent, the news adapter
\* answers, and its articles are returned
C11_Witness ==
    /\ erPc = "done"
    /\ erOutcome.google \in {"http_error", "timeout", "escaped"}
    /\ erOutcome.news = "ok"
    /\ Len(erGoogle) >= 1
    /\ Len(erNews) = 2
    /\ Len(erResult.sources) = 2

\* C12: on every path retrieve_evidence returns a record that carries the
\* sources, the total found, the search queries and the retrieval method,
\* so that verify_claim builds its evidence snapshot from it without an
\* exception.
C12_RecordAlwaysComplete ==
    /\ erPc \in {"done", "failed", "saved", "KeyError"}
          => EvidenceKeys \subseteq DOMAIN erResult
    /\ erPc # "KeyError"

----------------------------------------------------------------------------
(* Properties of claim detection and ingestion                             *)

\* the generation call failed or its output is malformed: no JSON object,
\* or a confidence that is no number
DcMalformed ==
    \/ dcRaw.kind # "json"
    \/ dcRaw.result.confidence.t \in {"null", "str"}

\* C13: detect_claim always returns a record; when the generation call
\* fails, times out or returns malformed output the record has is_claim
\* False, confidence 0.0 and an error message; otherwise its confidence is
\* in [0,1] and every field the output lacks has its default (is_claim
\* False, empty claim_text, empty entities, claim_type general).
C13_DetectNeverRaises ==
    igPc \in {"detected", "responded"} =>
        IF DcMalformed
        THEN /\ dcResult.is_claim = DcRaw("bool", FALSE)
             /\ dcResult.confidence = 0
             /\ "error" \in DOMAIN dcResult
        ELSE LET raw == dcRaw.result IN
             /\ dcResult.confidence \in 0..100
             /\ "error" \notin DOMAIN dcResult
             /\ dcResult.is_claim
                   = IF raw.is_claim.t = "missing" THEN DcRaw("bool", FALSE) ELSE raw.is_claim
             /\ dcResult.claim_text
                   = IF raw.claim_text.t = "missing" THEN DcRaw("str", 0) ELSE raw.claim_text
             /\ dcResult.entities
                   = IF raw.entities.t = "missing" THEN DcRaw("list", "empty") ELSE raw.entities
             /\ dcResult.claim_type
                   = IF raw.claim_type.t = "missing" THEN DcRaw("str", "general")
                     ELSE raw.claim_type

\* an output with a confidence of 1.5 and no claim_type: clamped, defaulted
C13_Witness ==
    /\ igPc = "detected"
    /\ dcRaw.kind = "json"
    /\ dcRaw.result.confidence = DcRaw("num", 150)
    /\ dcRaw.result.claim_type.t = "missing"
    /\ dcRaw.result.is_claim = DcRaw("bool", TRUE)
    /\ dcResult.confidence = 100
    /\ dcResult.claim_type = DcRaw("str", "general")

\* C14: whatever the generation call produced, ingest_text answers with a
\* well-formed result: "no claim" and no record created, or a claim stored
\* with status pending; never a hard failure.
C14_IngestAlwaysWellFormed ==
    igPc = "responded" =>
        /\ igResponse.status_code = 200
        /\ \/ ~igResponse.is_claim /\ claims = <<>>
           \/ /\ igResponse.is_claim
              /\ Len(claims) = 1
              /\ igResponse.claim_id = 1
              /\ claims[1].status = "pending"

----------------------------------------------------------------------------
(* Properties of the similarity index                                      *)

\* C15: whatever insertions, saves, crashes and restarts came before, the
\* index a service holds between operations has exactly as many vectors
\* as its metadata has entries, and metadata entry i describes vector i
\* (its position is i and vector i is the one given for its claim).
C15_IndexMatchesMetadata ==
    \A s \in Services :
        svc[s].pc \in {"loaded", "added"} =>
            /\ Len(svc[s].index) = Len(svc[s].metadata)
            /\ \A i \in 1..Len(svc[s].metadata) :
                  /\ svc[s].metadata[i].index_position = i
                  /\ i <= Len(svc[s].index)
                  /\ svc[s].index[i] = ixInserted[svc[s].metadata[i].claim_id]

\* C16: once no insertion is under way, the persisted metadata holds an
\* entry for every claim whose insertion completed, and the persisted
\* index holds that claim's vector at the entry's position.
C16_NoInsertionLost ==
    NoSaveUnderWay =>
        \A c \in ixCompleted :
            \E i \in 1..Len(fileMeta.data) :
                /\ fileMeta.data[i].claim_id = c
                /\ i <= Len(fileIndex.data)
                /\ fileIndex.data[i] = ixInserted[c]

\* C17: find_similar_claims returns at most min(k, index size) results,
\* each with a similarity at or above the threshold, in descending order of
\* similarity; a result whose claim was inserted with the query vector has
\* the greatest similarity of the results; an empty index gives no result.
C17_SearchResults ==
    ixSearch # None =>
        LET r == ixSearch.results IN
        /\ Len(r) <= Min(ixSearch.k, Len(ixSearch.index))
        /\ \A i \in 1..Len(r) : r[i].similarity_score >= ixSearch.threshold
        /\ \A i, j \in 1..Len(r) :
              i < j => r[i].similarity_score >= r[j].similarity_score
        /\ \A i, j \in 1..Len(r) :
              ixInserted[r[i].claim_id] = ixSearch.query
                  => r[i].similarity_score >= r[j].similarity_score
        /\ Len(ixSearch.index) = 0 => r = <<>>

----------------------------------------------------------------------------
(* Properties of clustering                                                *)

\* the claims with an embedding that were created in the hours before now
CkInWindow(hours) ==
    {i \in 1..Len(ckClaims) :
        /\ ckClaims[i].embedding # "null"
        /\ ckClaims[i].created_at >= ckNow - hours * 3600}

\* C18: a run of cluster_recent_claims that finds fewer than
\* min_cluster_size claims with an embedding created inside the window
\* returns the empty list, writes nothing to the cluster store and changes
\* no claim.
C18_QuietBelowMinimum ==
    [][Len(ckRuns') = Len(ckRuns) + 1 =>
          LET run == ckRuns'[Len(ckRuns')] IN
          Cardinality(CkInWindow(run.hours)) < min_cluster_size =>
              /\ run.clusters = <<>>
              /\ ckClusters' = ckClusters
              /\ ckClaims' = ckClaims]_vars

\* a run that returned nothing while two claims with an embedding were in
\* its window and an older one with an embedding was outside it
C18_Witness ==
    /\ ckRuns # <<>>
    /\ LET run == ckRuns[Len(ckRuns)] IN
       /\ run.at = ckNow
       /\ run.clusters = <<>>
       /\ Cardinality(CkInWindow(run.hours)) = 2
       /\ \E i \in 1..Len(ckClaims) :
             ckClaims[i].embedding # "null" /\ i \notin CkInWindow(run.hours)
    /\ ckClusters = {}

\* C19: after a run returned a cluster, the cluster store holds it under its
\* cluster_id and every claim whose id is in its claim_ids has that
\* cluster_id.
C19_MembersAnnotated ==
    ckRuns # <<>> =>
        LET run == ckRuns[Len(ckRuns)] IN
        \A k \in 1..Len(run.clusters) :
            /\ run.clusters[k] \in ckClusters
            /\ \A i \in 1..Len(ckClaims) :
                  Str(ObjectId(i)) \in Range(run.clusters[k].claim_ids)
                      => ckClaims[i].cluster_id = run.clusters[k].cluster_id

\* C20: no cluster_id produced by a run equals a cluster_id produced by
\* another run.
C20_ClusterIdsDistinctAcrossRuns ==
    \A i, j \in 1..Len(ckRuns) :
        i < j =>
            \A a \in 1..Len(ckRuns[i].clusters), b \in 1..Len(ckRuns[j].clusters) :
                ckRuns[i].clusters[a].cluster_id # ckRuns[j].clusters[b].cluster_id

----------------------------------------------------------------------------
(* Properties of the reliability heuristic                                 *)

\* the domain is in the .gov or .edu zone (domain names are not
\* case-sensitive)
DrGovOrEdu ==
    Len(drDomain) >= 2 /\ LowerLabel(drDomain[Len(drDomain)]) \in {"gov", "edu"}

\* C27: _estimate_domain_reliability returns 0.95 for a domain that matches
\* the high list, 0.75 for one that matches the medium list, 0.85 for any
\* other domain with a .gov or .edu suffix and 0.5 for every other domain.
C27_DomainReliability ==
    drScore # None =>
        drScore.score = IF \E d \in high_reliability : Contains(lower(drDomain), d) THEN 95
                        ELSE IF \E d \in medium_reliability : Contains(lower(drDomain), d) THEN 75
                        ELSE IF DrGovOrEdu THEN 85
                        ELSE 50

----------------------------------------------------------------------------
(* Properties of the pipeline under store failures and process stops       *)

\* since the process started, the verify requests came one after the other:
\* no slot other than r's has been taken
OneAtATime(r) == \A q \in Slots \ {r} : reqs[q].pc = "idle"

\* C21: a store write that verify attempted and that failed is reported to
\* the caller: the request goes to its failure path and does not answer
\* with a verdict.
C21_FailedWriteReported ==
    [][\A r \in Slots :
          (rvFaults' = rvFaults + 1 /\ reqs'[r] # reqs[r]) =>
              \/ reqs'[r].pc = "handler"
              \/ reqs'[r].pc = "done" /\ reqs'[r].status_code = 500]_vars

\* C22: when the process stops between the verdict insert and the claim
\* update, the claim is left processing with no verdict_id and the verdict
\* inserted is in the store, linked from no claim; a later verify of the
\* claim runs the verification again.
C22_StopBetweenInsertAndUpdate ==
    [][\A r \in Slots :
          LET c == reqs[r].claim_id IN
          /\ (rvStops' = rvStops + 1 /\ reqs[r].pc = "update_claim") =>
                /\ claims'[c].status = "processing"
                /\ claims'[c].verdict_id = 0
                /\ reqs[r].verdict_id \in 1..Len(verdicts')
                /\ \A d \in 1..Len(claims') : claims'[d].verdict_id # reqs[r].verdict_id
          /\ (/\ reqs[r].pc = "find" /\ reqs'[r] # reqs[r] /\ rvStops' = rvStops
              /\ \E x \in rvStopped : x.pc = "update_claim" /\ x.claim_id = c
              /\ c \in 1..Len(claims) /\ claims[c].status = "processing"
              /\ OneAtATime(r))
             => reqs'[r].pc = "set_processing"]_vars

\* C25: a verify without force_reverify that finds its claim in status
\* error, left there by an earlier verify, runs the verification again,
\* whether or not the claim carries a verdict_id.
C25_ErrorLeavesReverifiable ==
    [][\A r \in Slots :
          LET c == reqs[r].claim_id IN
          (/\ reqs[r].pc = "find" /\ reqs'[r] # reqs[r]
           /\ rvStops = 0 /\ rvStops' = 0
           /\ ~reqs[r].force_reverify
           /\ c \in 1..Len(claims) /\ claims[c].status = "error"
           /\ OneAtATime(r))
          => reqs'[r].pc = "set_processing"]_vars

\* C30: while the process has not stopped, a claim in status processing
\* has a verify request in flight: every request that wrote processing
\* writes verified or error before it ends.
C30_NoClaimLeftProcessing ==
    rvStops = 0 =>
        \A c \in 1..Len(claims) :
            claims[c].status = "processing" =>
                \E r \in Slots : reqs[r].claim_id = c /\ reqs[r].pc \notin {"idle", "done"}

----------------------------------------------------------------------------
(* Properties of human review                                              *)

\* the four stores
Stores == <<claims, evidence, verdicts, alerts>>

\* C23 as stated: once a verdict record is human_reviewed, no step resets
\* the flag and no step changes its label back to the label it had before
\* its first review.
C23_ReviewIsOneWay ==
    [][\A v \in 1..Len(verdicts) :
          verdicts[v].human_reviewed =>
              /\ verdicts'[v].human_reviewed
              /\ verdicts'[v].verdict # verdicts[v].verdict =>
                    verdicts'[v].verdict # rvPreReview[v]]_vars

\* C23 amended: once a verdict record is human_reviewed, no step resets the
\* flag, and the only step that changes the record is a review of that
\* record: verify and forced re-verify leave it as it is.
C23_ReviewedStaysReviewed ==
    [][\A v \in 1..Len(verdicts) :
          verdicts[v].human_reviewed =>
              /\ verdicts'[v].human_reviewed
              /\ verdicts'[v] # verdicts[v] =>
                    /\ rvReviews' = rvReviews + 1
                    /\ rvResponse' = [status_code |-> 200, verdict_id |-> v]]_vars

\* verdict 1 was reviewed twice and given another label, and a forced
\* re-verify of its claim has ended with a second verdict
C23_Witness ==
    /\ rvReviews = 2
    /\ Len(verdicts) >= 2
    /\ verdicts[1].human_reviewed /\ ~verdicts[2].human_reviewed
    /\ verdicts[1].verdict # rvPreReview[1]
    /\ \E r \in Slots :
          /\ reqs[r].pc = "done" /\ reqs[r].status_code = 200
          /\ reqs[r].force_reverify /\ reqs[r].verdict_id = 2

\* C24: a verify whose claim id, and a review whose verdict id, matches no
\* stored record writes to no store and answers 404, not 500.
C24_NotFoundIsDistinct ==
    [][/\ \A r \in Slots :
            (/\ reqs[r].pc \notin {"idle", "done"} /\ reqs'[r] # reqs[r]
             /\ reqs[r].claim_id \notin 1..Len(claims))
            => /\ Stores' = Stores
               /\ reqs'[r].pc = "done" => reqs'[r].status_code = 404
       /\ (rvReviews' = rvReviews + 1 /\ rvResponse'.verdict_id \notin 1..Len(verdicts))
            => /\ Stores' = Stores
               /\ rvResponse'.status_code = 404]_vars

\* C29: every record of the verdict store has a label among True, False,
\* Misleading, Partially True and Unverified.
C29_VerdictLabelsValid ==
    \A v \in 1..Len(verdicts) : verdicts[v].verdict \in valid_verdicts

----------------------------------------------------------------------------
(* Properties of the stored verdict                                        *)

\* the verdict records of claim c, by id
VerdictsOf(c) == {v \in 1..Len(verdicts) : verdicts[v].claim_id = c}

\* C26: whenever no verify request is in flight, the verdict_id of a claim
\* references the verdict record of that claim created last.
C26_LatestVerdictAuthoritative ==
    (\A r \in Slots : reqs[r].pc \in {"idle", "done"}) =>
        \A c \in 1..Len(claims) :
            VerdictsOf(c) # {} =>
                /\ claims[c].verdict_id \in VerdictsOf(c)
                /\ \A v \in VerdictsOf(c) : v <= claims[c].verdict_id

\* C28: a verify without force_reverify that finds its claim with the
\* verdict_id of a stored verdict looks that verdict up and answers 200
\* with it, and neither step writes to a store.
C28_StoredVerdictReturned ==
    [][\A r \in Slots :
          LET c == reqs[r].claim_id IN
          /\ (/\ reqs[r].pc = "find" /\ reqs'[r] # reqs[r]
              /\ ~reqs[r].force_reverify
              /\ c \in 1..Len(claims) /\ claims[c].verdict_id \in 1..Len(verdicts))
             => /\ reqs'[r].pc = "find_verdict"
                /\ reqs'[r].claim_verdict_id = claims[c].verdict_id
                /\ Stores' = Stores
          /\ (reqs[r].pc = "find_verdict" /\ reqs'[r] # reqs[r])
             => /\ reqs'[r].pc = "done" /\ reqs'[r].status_code = 200
                /\ reqs'[r].verdict_id = reqs[r].claim_verdict_id
                /\ Stores' = Stores]_vars

\* a verify without force_reverify has answered with the stored verdict of
\* a claim verified before
C28_Witness ==
    \E r \in Slots :
        /\ reqs[r].pc = "done" /\ reqs[r].status_code = 200
        /\ ~reqs[r].force_reverify
        /\ reqs[r].claim_verdict_id # 0
        /\ reqs[r].verdict_id = reqs[r].claim_verdict_id
        /\ claims[reqs[r].claim_id].status = "verified"
        /\ Len(verdicts) = 1 /\ Len(evidence) = 1

============================================================================
